---- MODULE Spec2Model ----
(***************************************************************************)
(* State synchronisation and persistence engine of excalidraw-mcp:         *)
(* CanvasManager (in-memory LRU cache of canvases, element CRUD) on top of *)
(* CanvasStorage (debounced saves, temp file + rename), and the sliding    *)
(* window RateLimiter in front of the requests, and the WSManager that     *)
(* registers the WebSocket connections and broadcasts to them.             *)
(*                                                                         *)
(* Execution model: Node.js, one thread.  An action is one macrotask (a    *)
(* call's synchronous prefix, a timer callback, an I/O completion) run up  *)
(* to its next suspension point.  Date.now() is the variable now.          *)
(***************************************************************************)
EXTENDS Integers, Sequences, FiniteSets, TLC

VARIABLES
  now,          \* Date.now()
  heap,         \* Canvas objects by reference (index): aliasing is observable
  canvases,     \* CanvasManager.canvases: canvas id -> object reference (0: absent)
  accessOrder,  \* CanvasManager.accessOrder: the Map's entries [id, ts] in insertion order
  calls,        \* the calls issued so far, one slot per call
  pendingSaves, \* CanvasStorage.pendingSaves
  lastSave,     \* CanvasStorage.lastSave (0: no entry)
  writes,       \* executeSave invocations between their first await and their end
  disk,         \* content under the final path canvas-<sanitized>.json
  tmp,          \* content under <final path>.tmp
  wcount,       \* history: number of executeSave runs that reached the file system, per id
  config,       \* RateLimiter.config: windowMs, maxRequests
  requests,     \* RateLimiter.requests: key -> entry with its timestamps, or no entry
  cleanupAt,    \* when the RateLimiter's setInterval callback is next due
  rlog,         \* history: the checkLimit and reset calls made so far, with their results
  connections,  \* WSManager.connections: the Map's entries in insertion order
  nextConn,     \* the connection id generateUUID gives next
  received,     \* history: the payloads ws.send accepted during the last broadcast, per connection id
  sweepAt,      \* when the WSManager's setInterval callback is next due
  last,         \* history: the WSManager operation performed last
  wsRef,        \* useWebSocket wsRef.current: a socket (index) or 0 for null
  isConnected,  \* useWebSocket isConnected
  reconnectTimeoutRef, \* reconnectTimeoutRef.current: a timer id or 0 for null
  reconnectCount,      \* reconnectCountRef.current
  messageBuffer,       \* messageBufferRef.current
  intentionalClose,    \* intentionalCloseRef.current
  sockets,      \* the WebSocket objects the hook has created: readyState, what was sent
  timers,       \* the reconnection timers set and neither fired nor cleared
  sendCount,    \* history: number of send() calls made so far
  attempts,     \* history: reconnection attempts made since the last successful open
  hookOp,       \* history: the hook call or socket event performed last
  scene,        \* App: the elements of each client's Excalidraw scene
  handled       \* history: the messages each client's handleWebSocketMessage was given

vars == <<now, heap, canvases, accessOrder, calls, pendingSaves, lastSave,
          writes, disk, tmp, wcount, config, requests, cleanupAt, rlog,
          connections, nextConn, received, sweepAt, last,
          wsRef, isConnected, reconnectTimeoutRef, reconnectCount, messageBuffer,
          intentionalClose, sockets, timers, sendCount, attempts, hookOp,
          scene, handled>>

engineVars == <<heap, canvases, accessOrder, calls, pendingSaves, lastSave,
                writes, disk, tmp, wcount>>
limiterVars == <<config, requests, cleanupAt, rlog>>
hubVars == <<connections, nextConn, received, sweepAt, last>>
appVars == <<scene, handled>>
clientVars == <<wsRef, isConnected, reconnectTimeoutRef, reconnectCount, messageBuffer,
                intentionalClose, sockets, timers, sendCount, attempts, hookOp, appVars>>
sideVars == <<limiterVars, hubVars, clientVars>>

storeVars == <<pendingSaves, lastSave, writes, disk, tmp, wcount>>
cacheVars == <<canvases, accessOrder>>

----------------------------------------------------------------------------
(* Bounds and scaled program constants *)

ElemCalls == 4       \* calls issued in one behaviour of Spec
CacheCalls == 3      \* calls issued in one behaviour of CacheSpec
StoreCalls == 3      \* calls issued in one behaviour of StoreSpec
CacheTicks == 2      \* clock ticks explored by CacheSpec
StoreTicks == 3      \* clock ticks explored by StoreSpec
saveThrottleMs == 2  \* 1000 ms in the source, in clock ticks here
MAX_CANVASES == 2    \* 100 in the source
MAX_ELEMENTS == 2    \* 10000 in the source
EvictCalls == 4      \* calls issued in one behaviour of EvictSpec
EvictTicks == 2      \* clock ticks explored by EvictSpec
OverlapCalls == 2    \* updateElement calls made in one behaviour of OverlapSpec
OverlapTicks == 2    \* clock ticks explored by OverlapSpec
SyncCalls == 3       \* messages handled in one behaviour of SyncSpec
PropCalls == 2       \* sync_to_backend messages in one behaviour of PropagateSpec
PathCalls == 3       \* calls made in one behaviour of PathSpec
NotifyCalls == 2     \* messages handled in one behaviour of NotifySpec
FairCalls == 3       \* saveCanvas calls made in one behaviour of FairStoreSpec
FairTicks == 2       \* clock ticks FairStoreSpec explores beyond those the timers need
RateCalls == 4       \* RateLimiter calls made in one behaviour of RateSpec
RateTicks == 2       \* clock ticks explored by RateSpec
MaxWindow == 2       \* largest windowMs a RateLimiter is constructed with
MaxCeiling == 2      \* largest maxRequests a RateLimiter is constructed with
HubConns == 4        \* connections registered in one behaviour of HubSpec
HubTicks == 3        \* clock ticks explored by SweepSpec
MAX_CONNECTIONS == 3     \* 1000 in the source
INACTIVITY_TIMEOUT == 2  \* 5 * 60 * 1000 ms in the source, in clock ticks here
SweepEvery == 1          \* 60000 ms in the source
ClientSockets == 4   \* sockets the hook creates in one behaviour of ClientSpec
ClientSends == 3     \* send() calls in one behaviour of ClientSpec
reconnectAttempts == 2   \* the default is 10 in the source
MaxBuffer == 2           \* 100 in the source

Max(a, b) == IF a >= b THEN a ELSE b

Procs == 1..Max(ElemCalls, Max(CacheCalls, StoreCalls))
StartTime == saveThrottleMs  \* Date.now() is far larger than saveThrottleMs at start

----------------------------------------------------------------------------
(* Canvas ids are strings; a string is a sequence of characters here so    *)
(* that the path sanitiser can be computed.                                *)

SafeChars == {"a", "b", "c"}
IdA == <<"a">>
IdB == <<"b">>
IdC == <<"c">>
IdADot == <<"a", ".">>
CanvasIds == {IdA, IdB, IdC, IdADot}

\* canvasId.replace(/[^a-zA-Z0-9-_]/g, ''); the path is canvas-<sanitized>.json
getCanvasPath(canvasId) == SelectSeq(canvasId, LAMBDA ch : ch \in SafeChars)

Paths == {getCanvasPath(c) : c \in CanvasIds}

----------------------------------------------------------------------------
(* Values *)

ElemIds == {"e1", "e2"}
GenIds == {"g1", "g2"}

NoElem == [id |-> "", version |-> 0, isDeleted |-> FALSE, locked |-> FALSE, x |-> 0]

\* createNewCanvas
createNewCanvas(canvasId) == [id |-> canvasId, elements |-> <<>>, version |-> 1]

NoDoc == [id |-> <<>>, elements |-> <<>>, version |-> 0]
NoFile == [kind |-> "none", doc |-> NoDoc]
Partial == [kind |-> "partial", doc |-> NoDoc]
\* JSON.stringify(canvas, null, 2): the text of a snapshot, tagged as complete JSON
Serialize(canvas) == [kind |-> "json", doc |-> canvas]

NoPending == [canvas |-> 0, promises |-> <<>>, timeoutAt |-> 0]

\* a Partial<ServerElement> payload: the fields it carries and their values
NoData == [fields |-> {}, id |-> "", version |-> 0, isDeleted |-> FALSE,
           locked |-> FALSE, x |-> 0]
Has(data, f) == f \in data.fields

IdleCall == [op |-> "none", cid |-> <<>>, eid |-> "", data |-> NoData, pc |-> "idle",
             obj |-> 0, result |-> "none", ret |-> NoElem, count |-> 0,
             at |-> 0, pre |-> NoElem, before |-> <<>>]

----------------------------------------------------------------------------
(* CanvasStorage.saveCanvas: the synchronous body of the promise executor  *)

\* pendingSaves after saveCanvas(canvas) called by p at time now, canvas being
\* the object o whose id is id: the entry is created or reused, the canvas
\* replaced, the promise queued, the timer cleared and set again
saveCanvas(ps, id, o, p) ==
  LET old == ps[id]
      delay == Max(0, saveThrottleMs - (now - lastSave[id]))
  IN [ps EXCEPT ![id] = [canvas |-> o,
                         promises |-> Append(old.promises, p),
                         timeoutAt |-> now + delay]]

----------------------------------------------------------------------------
(* Settling the promises of a write cycle *)

\* a call whose saveCanvas promise was resolved
AfterResolve(c) ==
  IF c.pc = "gcSaving" THEN [c EXCEPT !.pc = "gcResume"]
  ELSE [c EXCEPT !.pc = "done", !.result = IF c.op = "save" THEN "ok" ELSE c.result]

\* callers that do not look at the outcome of the save
MutAfterReject(c) ==
  IF c.pc = "gcSaving" THEN [c EXCEPT !.pc = "gcResume"]
  ELSE [c EXCEPT !.pc = "done"]

\* a call whose saveCanvas promise was rejected: getCanvas rethrows, the CRUD
\* methods catch and return INTERNAL_ERROR, a direct caller sees the rejection
AfterReject(c) ==
  [c EXCEPT !.pc = "done",
            !.result = IF c.op \in {"save", "get"} THEN "rejected" ELSE "INTERNAL_ERROR",
            !.ret = NoElem]

InSeq(x, s) == \E i \in 1..Len(s) : s[i] = x

Resolved(cs, promises) ==
  [p \in Procs |-> IF InSeq(p, promises) THEN AfterResolve(cs[p]) ELSE cs[p]]
Rejected(cs, promises) ==
  [p \in Procs |-> IF InSeq(p, promises) THEN AfterReject(cs[p]) ELSE cs[p]]

\* promise continuations (microtasks) run before the next macrotask
NoMicrotask == \A p \in Procs : calls[p].pc # "gcResume"

----------------------------------------------------------------------------
(* CanvasStorage.executeSave, one action per await *)

\* the setTimeout callback: take the pending entry, serialize, start writeFile
TimerFire(id) ==
  /\ NoMicrotask
  /\ pendingSaves[id] # NoPending
  /\ now >= pendingSaves[id].timeoutAt
  /\ LET pending == pendingSaves[id]
         path == getCanvasPath(heap[pending.canvas].id)
     IN /\ writes' = writes \cup {[canvasId |-> heap[pending.canvas].id,
                                   data |-> Serialize(heap[pending.canvas]),
                                   promises |-> pending.promises,
                                   stage |-> "writeFile",
                                   before |-> disk[path]]}
        /\ wcount' = [wcount EXCEPT ![id] = @ + 1]
  /\ pendingSaves' = [pendingSaves EXCEPT ![id] = NoPending]
  /\ UNCHANGED <<now, heap, canvases, accessOrder, calls, lastSave, disk, tmp>>
  /\ UNCHANGED sideVars

Advance(w, st) == (writes \ {w}) \cup {[w EXCEPT !.stage = st]}

\* await fs.writeFile(tempPath, data) succeeded; fs.rename is started
WriteFileOk(w) ==
  /\ NoMicrotask
  /\ w.stage = "writeFile"
  /\ tmp' = [tmp EXCEPT ![getCanvasPath(w.canvasId)] = w.data]
  /\ writes' = Advance(w, "rename")
  /\ UNCHANGED <<now, heap, canvases, accessOrder, calls, pendingSaves, lastSave, disk, wcount>>
  /\ UNCHANGED sideVars

\* fs.writeFile threw: before the file was opened, or after it was truncated
\* and partly written; the catch block starts fs.unlink
WriteFileFail(w) ==
  /\ NoMicrotask
  /\ w.stage = "writeFile"
  /\ \E left \in {tmp[getCanvasPath(w.canvasId)], Partial} :
       tmp' = [tmp EXCEPT ![getCanvasPath(w.canvasId)] = left]
  /\ writes' = Advance(w, "unlink")
  /\ UNCHANGED <<now, heap, canvases, accessOrder, calls, pendingSaves, lastSave, disk, wcount>>
  /\ UNCHANGED sideVars

\* await fs.rename(tempPath, filePath) succeeded: lastSave, resolve every promise
RenameOk(w) ==
  /\ NoMicrotask
  /\ w.stage = "rename"
  /\ tmp[getCanvasPath(w.canvasId)] # NoFile
  /\ disk' = [disk EXCEPT ![getCanvasPath(w.canvasId)] = tmp[getCanvasPath(w.canvasId)]]
  /\ tmp' = [tmp EXCEPT ![getCanvasPath(w.canvasId)] = NoFile]
  /\ lastSave' = [lastSave EXCEPT ![w.canvasId] = now]
  /\ writes' = writes \ {w}
  /\ calls' = Resolved(calls, w.promises)
  /\ UNCHANGED <<now, heap, canvases, accessOrder, pendingSaves, wcount>>
  /\ UNCHANGED sideVars

\* fs.rename threw (ENOENT when the temp file is gone, or any other error)
RenameFail(w) ==
  /\ NoMicrotask
  /\ w.stage = "rename"
  /\ writes' = Advance(w, "unlink")
  /\ UNCHANGED <<now, heap, canvases, accessOrder, calls, pendingSaves, lastSave, disk, tmp, wcount>>
  /\ UNCHANGED sideVars

\* executeSave whose catch block does not remove the temp file
MutUnlinkDone(w) ==
  /\ NoMicrotask
  /\ w.stage = "unlink"
  /\ writes' = writes \ {w}
  /\ calls' = Rejected(calls, w.promises)
  /\ UNCHANGED <<now, heap, canvases, accessOrder, pendingSaves, lastSave, disk, tmp, wcount>>
  /\ UNCHANGED sideVars

\* the catch block: fs.unlink(tempPath), its own error ignored (ENOENT), then
\* reject every promise
UnlinkDone(w) ==
  /\ NoMicrotask
  /\ w.stage = "unlink"
  /\ tmp' = [tmp EXCEPT ![getCanvasPath(w.canvasId)] = NoFile]
  /\ writes' = writes \ {w}
  /\ calls' = Rejected(calls, w.promises)
  /\ UNCHANGED <<now, heap, canvases, accessOrder, pendingSaves, lastSave, disk, wcount>>
  /\ UNCHANGED sideVars

\* the clock
Tick ==
  /\ NoMicrotask
  /\ now' = now + 1
  /\ UNCHANGED <<heap, canvases, accessOrder, calls, pendingSaves, lastSave, writes, disk, tmp, wcount>>
  /\ UNCHANGED sideVars

----------------------------------------------------------------------------
(* Calls are issued in slot order, which names them by issue order *)

CanStart(p) ==
  /\ NoMicrotask
  /\ calls[p].pc = "idle"
  /\ \A q \in Procs : q < p => calls[q].pc # "idle"

\* a direct caller of storage.saveCanvas with a canvas object of its own
\* ({...canvas, version: n}): the n-th such call carries version n
StartSave(p, cid) ==
  /\ CanStart(p)
  /\ LET o == Len(heap) + 1
         n == Cardinality({q \in Procs : calls[q].op = "save" /\ calls[q].cid = cid}) + 1
         h == Append(heap, [id |-> cid, elements |-> <<>>, version |-> n])
     IN /\ heap' = h
        /\ pendingSaves' = saveCanvas(pendingSaves, cid, o, p)
        /\ calls' = [calls EXCEPT ![p] =
                       [IdleCall EXCEPT !.op = "save", !.cid = cid, !.pc = "saving",
                                        !.obj = o, !.at = now]]
  /\ UNCHANGED <<now, canvases, accessOrder, lastSave, writes, disk, tmp, wcount>>
  /\ UNCHANGED sideVars

----------------------------------------------------------------------------
(* CanvasManager: the LRU cache *)

Size(cv) == Cardinality({c \in CanvasIds : cv[c] # 0})

RECURSIVE OldestFrom(_, _, _, _)
\* the for loop of evictLRU over accessOrder.entries() from entry i on
OldestFrom(ao, i, oldestId, oldestTime) ==
  IF i > Len(ao) THEN oldestId
  ELSE IF ao[i].ts < oldestTime
       THEN OldestFrom(ao, i + 1, ao[i].id, ao[i].ts)
       ELSE OldestFrom(ao, i + 1, oldestId, oldestTime)

\* an eviction that takes the entry inserted last
MutOldest(ao) == IF ao = <<>> THEN <<>> ELSE ao[Len(ao)].id

\* let oldestId = null; let oldestTime = Date.now(); <<>> stands for null
Oldest(ao) == OldestFrom(ao, 1, <<>>, now)

Without(ao, id) == SelectSeq(ao, LAMBDA e : e.id # id)

\* evictLRU: [canvases, accessOrder] afterwards
evictLRU(cv, ao) ==
  IF Size(cv) < MAX_CANVASES THEN [canvases |-> cv, accessOrder |-> ao]
  ELSE LET oldestId == Oldest(ao)
       IN IF oldestId # <<>>
          THEN [canvases |-> [cv EXCEPT ![oldestId] = 0],
                accessOrder |-> Without(ao, oldestId)]
          ELSE [canvases |-> cv, accessOrder |-> ao]

\* markAccessed: Map.set keeps the position of a key that is present
markAccessed(ao, id) ==
  IF \E i \in 1..Len(ao) : ao[i].id = id
  THEN [i \in 1..Len(ao) |-> IF ao[i].id = id THEN [id |-> id, ts |-> now] ELSE ao[i]]
  ELSE Append(ao, [id |-> id, ts |-> now])

----------------------------------------------------------------------------
(* CanvasManager: the element operations on a canvas, from the line after  *)
(* "const canvas = await this.getCanvas(canvasId)" to the saveCanvas call  *)

Min(S) == CHOOSE m \in S : \A n \in S : m <= n

\* canvas.elements.findIndex(el => el.id === elementId && !el.isDeleted); 0 for -1
findIndex(els, elementId) ==
  LET S == {i \in 1..Len(els) : els[i].id = elementId /\ ~els[i].isDeleted}
  IN IF S = {} THEN 0 ELSE Min(S)

\* randomId(): 64 random bits, taken as an id no element of the canvas has
randomId(els) ==
  CHOOSE g \in GenIds : \A i \in 1..Len(els) : els[i].id # g

\* {...existing, ...updates}
Merge(existing, updates) ==
  [id |-> IF Has(updates, "id") THEN updates.id ELSE existing.id,
   version |-> IF Has(updates, "version") THEN updates.version ELSE existing.version,
   isDeleted |-> IF Has(updates, "isDeleted") THEN updates.isDeleted ELSE existing.isDeleted,
   locked |-> IF Has(updates, "locked") THEN updates.locked ELSE existing.locked,
   x |-> IF Has(updates, "x") THEN updates.x ELSE existing.x]

\* addServerMetadata({...elementData, id, version: 1, isDeleted: false}):
\* ensureExcalidrawProperties supplies locked: false when the payload has none
NewElement(elementData, id) ==
  [Merge([NoElem EXCEPT !.locked = FALSE], elementData)
     EXCEPT !.id = id, !.version = 1, !.isDeleted = FALSE]

\* updateElement without "id: elementId": the payload's id survives the merge
MutUpdatedElement(existingElement, updates, elementId) ==
  [Merge(existingElement, updates) EXCEPT !.version = existingElement.version + 1]

\* updateServerMetadata({...existingElement, ...updates, id: elementId,
\*                       version: (existingElement.version || 0) + 1})
UpdatedElement(existingElement, updates, elementId) ==
  [Merge(existingElement, updates)
     EXCEPT !.id = elementId, !.version = existingElement.version + 1]

Fail(doc, code) == [ok |-> FALSE, code |-> code, doc |-> doc, ret |-> NoElem,
                    count |-> 0, pre |-> NoElem]
Done(doc, ret, count, pre) == [ok |-> TRUE, code |-> "ok", doc |-> doc, ret |-> ret,
                               count |-> count, pre |-> pre]

createElement(doc, elementData) ==
  IF Len(doc.elements) >= MAX_ELEMENTS THEN Fail(doc, "VALIDATION_ERROR")
  ELSE LET id == IF Has(elementData, "id") /\ elementData.id # ""
                 THEN elementData.id ELSE randomId(doc.elements)
           element == NewElement(elementData, id)
       IN Done([doc EXCEPT !.elements = Append(@, element)], element, 0, NoElem)

updateElement(doc, elementId, updates) ==
  LET elementIndex == findIndex(doc.elements, elementId)
  IN IF elementIndex = 0 THEN Fail(doc, "ELEMENT_NOT_FOUND")
     ELSE LET existingElement == doc.elements[elementIndex]
          IN IF existingElement.locked THEN Fail(doc, "ELEMENT_LOCKED")
             ELSE LET updatedElement == UpdatedElement(existingElement, updates, elementId)
                  IN Done([doc EXCEPT !.elements[elementIndex] = updatedElement],
                          updatedElement, 0, existingElement)

deleteElement(doc, elementId) ==
  LET elementIndex == findIndex(doc.elements, elementId)
  IN IF elementIndex = 0 THEN Fail(doc, "ELEMENT_NOT_FOUND")
     ELSE LET element == doc.elements[elementIndex]
          IN IF element.locked THEN Fail(doc, "ELEMENT_LOCKED")
             ELSE Done([doc EXCEPT !.elements[elementIndex].isDeleted = TRUE],
                       [element EXCEPT !.isDeleted = TRUE], 0, element)

\* a clearCanvas that counts the rows, soft-deleted ones included
MutClearCanvas(doc) ==
  Done([doc EXCEPT !.elements =
          [i \in 1..Len(doc.elements) |-> [doc.elements[i] EXCEPT !.isDeleted = TRUE]]],
       NoElem, Len(doc.elements), NoElem)

clearCanvas(doc) ==
  LET activeCount == Cardinality({i \in 1..Len(doc.elements) : ~doc.elements[i].isDeleted})
  IN Done([doc EXCEPT !.elements =
              [i \in 1..Len(doc.elements) |-> [doc.elements[i] EXCEPT !.isDeleted = TRUE]]],
          NoElem, activeCount, NoElem)

Apply(c, doc) ==
  CASE c.op = "create" -> createElement(doc, c.data)
    [] c.op = "update" -> updateElement(doc, c.eid, c.data)
    [] c.op = "delete" -> deleteElement(doc, c.eid)
    [] c.op = "clear" -> clearCanvas(doc)

\* getActiveElements / getElementById: cache-only reads
getActiveElements(canvasId) ==
  IF canvases[canvasId] = 0 THEN <<>>
  ELSE SelectSeq(heap[canvases[canvasId]].elements, LAMBDA el : ~el.isDeleted)

getElementById(canvasId, elementId) ==
  IF canvases[canvasId] = 0 THEN NoElem
  ELSE LET els == heap[canvases[canvasId]].elements
           i == findIndex(els, elementId)
       IN IF i = 0 THEN NoElem ELSE els[i]

\* The rest of call p (its record c) once getCanvas has returned object o:
\* getCanvas's own caller is done; a CRUD method mutates the canvas and calls
\* saveCanvas, or returns its error.  h and ps are the heap and pendingSaves
\* to start from.
Continue(p, c, o, h, ps) ==
  IF c.op = "get"
  THEN /\ heap' = h
       /\ pendingSaves' = ps
       /\ calls' = [calls EXCEPT ![p] = [c EXCEPT !.pc = "done", !.obj = o, !.result = "ok"]]
  ELSE LET r == Apply(c, h[o])
       IN IF r.ok
          THEN /\ heap' = [h EXCEPT ![o] = r.doc]
               /\ pendingSaves' = saveCanvas(ps, h[o].id, o, p)
               /\ calls' = [calls EXCEPT ![p] =
                              [c EXCEPT !.pc = "saving", !.obj = o, !.result = "ok",
                                        !.ret = r.ret, !.count = r.count,
                                        !.pre = r.pre, !.at = now,
                                        !.before = h[o].elements]]
          ELSE /\ heap' = h
               /\ pendingSaves' = ps
               /\ calls' = [calls EXCEPT ![p] =
                              [c EXCEPT !.pc = "done", !.obj = o, !.result = r.code,
                                        !.before = h[o].elements]]

\* a call of getCanvas, createElement, updateElement, deleteElement or
\* clearCanvas up to its first suspension: getCanvas finds the canvas cached
\* and the caller goes on, or it evicts and starts storage.loadCanvas
Start(p, op, cid, eid, data) ==
  /\ CanStart(p)
  /\ LET c == [IdleCall EXCEPT !.op = op, !.cid = cid, !.eid = eid, !.data = data]
     IN IF canvases[cid] # 0
        THEN /\ accessOrder' = markAccessed(accessOrder, cid)
             /\ canvases' = canvases
             /\ Continue(p, c, canvases[cid], heap, pendingSaves)
        ELSE /\ LET e == evictLRU(canvases, accessOrder)
                IN /\ canvases' = e.canvases
                   /\ accessOrder' = e.accessOrder
             /\ calls' = [calls EXCEPT ![p] = [c EXCEPT !.pc = "loading"]]
             /\ UNCHANGED <<heap, pendingSaves>>
  /\ UNCHANGED <<now, lastSave, writes, disk, tmp, wcount>>
  /\ UNCHANGED sideVars

\* storage.loadCanvas completed with a parsed snapshot: a new object, cached
\* and marked, then the caller goes on
LoadFound(p) ==
  /\ NoMicrotask
  /\ calls[p].pc = "loading"
  /\ disk[getCanvasPath(calls[p].cid)].kind = "json"
  /\ LET o == Len(heap) + 1
         h == Append(heap, disk[getCanvasPath(calls[p].cid)].doc)
     IN /\ canvases' = [canvases EXCEPT ![calls[p].cid] = o]
        /\ accessOrder' = markAccessed(accessOrder, calls[p].cid)
        /\ Continue(p, calls[p], o, h, pendingSaves)
  /\ UNCHANGED <<now, lastSave, writes, disk, tmp, wcount>>
  /\ UNCHANGED sideVars

\* storage.loadCanvas returned null (ENOENT): createNewCanvas, and getCanvas
\* awaits storage.saveCanvas(canvas) before it caches the canvas
LoadMissing(p) ==
  /\ NoMicrotask
  /\ calls[p].pc = "loading"
  /\ disk[getCanvasPath(calls[p].cid)].kind = "none"
  /\ LET o == Len(heap) + 1
     IN /\ heap' = Append(heap, createNewCanvas(calls[p].cid))
        /\ pendingSaves' = saveCanvas(pendingSaves, calls[p].cid, o, p)
        /\ calls' = [calls EXCEPT ![p] = [@ EXCEPT !.pc = "gcSaving", !.obj = o, !.at = now]]
  /\ UNCHANGED <<now, canvases, accessOrder, lastSave, writes, disk, tmp, wcount>>
  /\ UNCHANGED sideVars

\* storage.loadCanvas threw (JSON.parse of a file that is no complete JSON)
LoadThrows(p) ==
  /\ NoMicrotask
  /\ calls[p].pc = "loading"
  /\ disk[getCanvasPath(calls[p].cid)].kind = "partial"
  /\ calls' = [calls EXCEPT ![p] = AfterReject(@)]
  /\ UNCHANGED <<now, heap, canvases, accessOrder, pendingSaves, lastSave, writes,
                 disk, tmp, wcount>>
  /\ UNCHANGED sideVars

\* getCanvas after its saveCanvas resolved: cache the new canvas, mark it,
\* return it; the caller goes on
GcResume(p) ==
  /\ calls[p].pc = "gcResume"
  /\ canvases' = [canvases EXCEPT ![calls[p].cid] = calls[p].obj]
  /\ accessOrder' = markAccessed(accessOrder, calls[p].cid)
  /\ Continue(p, calls[p], calls[p].obj, heap, pendingSaves)
  /\ UNCHANGED <<now, lastSave, writes, disk, tmp, wcount>>
  /\ UNCHANGED sideVars

----------------------------------------------------------------------------
(* RateLimiter: sliding window over the timestamps of the admitted calls  *)

Keys == {"k1", "k2"}
NoEntry == [has |-> FALSE, timestamps |-> <<>>]

\* a sliding window that keeps the timestamp lying exactly windowMs back
MutInWindow(timestamps, windowStart) ==
  SelectSeq(timestamps, LAMBDA ts : ts >= windowStart)

\* entry.timestamps.filter(ts => ts > windowStart)
InWindow(timestamps, windowStart) ==
  SelectSeq(timestamps, LAMBDA ts : ts > windowStart)

\* checkLimit that records the timestamp of a call it rejects
MutCheckLimit(rq, key) ==
  LET entry == rq[key]
      kept == InWindow(entry.timestamps, now - config.windowMs)
  IN [ok |-> ~entry.has \/ Len(kept) < config.maxRequests,
      requests |-> [rq EXCEPT ![key] = [has |-> TRUE,
                                        timestamps |-> Append(kept, now)]]]

\* checkLimit(key) on the map rq: its result and the map it leaves
checkLimit(rq, key) ==
  LET entry == rq[key]
      kept == InWindow(entry.timestamps, now - config.windowMs)
  IN IF ~entry.has
     THEN [ok |-> TRUE,
           requests |-> [rq EXCEPT ![key] = [has |-> TRUE, timestamps |-> <<now>>]]]
     ELSE IF Len(kept) >= config.maxRequests
     THEN [ok |-> FALSE, requests |-> [rq EXCEPT ![key].timestamps = kept]]
     ELSE [ok |-> TRUE, requests |-> [rq EXCEPT ![key].timestamps = Append(kept, now)]]

\* getUsage(key)
getUsage(rq, key) ==
  LET entry == rq[key]
      kept == InWindow(entry.timestamps, now - config.windowMs)
  IN IF ~entry.has
     THEN [count |-> 0, limit |-> config.maxRequests,
           remaining |-> config.maxRequests, requests |-> rq]
     ELSE [count |-> Len(kept), limit |-> config.maxRequests,
           remaining |-> Max(0, config.maxRequests - Len(kept)),
           requests |-> [rq EXCEPT ![key].timestamps = kept]]

\* reset that clears the whole map
MutReset(rq, key) == [k \in Keys |-> NoEntry]

\* reset(key): this.requests.delete(key)
reset(rq, key) == [rq EXCEPT ![key] = NoEntry]

\* cleanup(): filter every entry, delete the entries left empty
cleanup(rq) ==
  [k \in Keys |->
     LET kept == InWindow(rq[k].timestamps, now - config.windowMs)
     IN IF rq[k].has /\ kept # <<>> THEN [has |-> TRUE, timestamps |-> kept]
        ELSE NoEntry]

\* the earliest timestamp recorded for key, 0 when there is none
Oldest1(rq, key) ==
  IF rq[key].timestamps = <<>> THEN 0 ELSE rq[key].timestamps[1]

Logged(op, key, ok) ==
  Append(rlog, [op |-> op, key |-> key, at |-> now, ok |-> ok,
                oldest |-> Oldest1(requests, key)])

CheckLimit(key) ==
  /\ requests' = checkLimit(requests, key).requests
  /\ rlog' = Logged("check", key, checkLimit(requests, key).ok)
  /\ UNCHANGED <<now, engineVars, hubVars, clientVars, config, cleanupAt>>

GetUsage(key) ==
  /\ requests' = getUsage(requests, key).requests
  /\ UNCHANGED <<now, engineVars, hubVars, clientVars, config, cleanupAt, rlog>>

Reset(key) ==
  /\ requests' = reset(requests, key)
  /\ rlog' = Logged("reset", key, TRUE)
  /\ UNCHANGED <<now, engineVars, hubVars, clientVars, config, cleanupAt>>

\* the setInterval callback, every windowMs
Cleanup ==
  /\ now >= cleanupAt
  /\ requests' = cleanup(requests)
  /\ cleanupAt' = now + config.windowMs
  /\ UNCHANGED <<now, engineVars, hubVars, clientVars, config, rlog>>

----------------------------------------------------------------------------
(* WSManager: the registry of connections, broadcast, the inactivity sweep *)

ConnIds == 1..HubConns
Msgs == {"m1", "m2"}
OPEN == 1      \* WebSocket.readyState
CLOSING == 2
CLOSED == 3
NoOp == [op |-> "none"]

\* JSON.stringify(message)
Stringify(message) == <<"json", message>>

IndexOf(conns, id) ==
  LET S == {i \in 1..Len(conns) : conns[i].id = id}
  IN IF S = {} THEN 0 ELSE Min(S)

IdsOf(conns) == {conns[i].id : i \in 1..Len(conns)}

\* a removal that also drops the entries registered after connectionId
MutRemoveConnection(conns, connectionId) ==
  IF IndexOf(conns, connectionId) = 0 THEN conns
  ELSE SubSeq(conns, 1, IndexOf(conns, connectionId) - 1)

\* removeConnection(connectionId): close the socket when it is open, delete
\* the entry; nothing when there is no entry
removeConnection(conns, connectionId) ==
  SelectSeq(conns, LAMBDA c : c.id # connectionId)

\* updateLastActivity(connectionId)
updateLastActivity(conns, connectionId) ==
  [i \in 1..Len(conns) |->
     IF conns[i].id = connectionId THEN [conns[i] EXCEPT !.lastActivity = now]
     ELSE conns[i]]

\* the size test of addConnection, off by one
MutAtCapacity(conns) == Len(conns) > MAX_CONNECTIONS

\* this.connections.size >= this.MAX_CONNECTIONS
AtCapacity(conns) == Len(conns) >= MAX_CONNECTIONS

\* addConnection(ws, canvasId), ws being in readyState rs: at capacity the
\* socket is closed and CONNECTION_LIMIT thrown; otherwise the connection is
\* registered under a new id
AddConnection(canvasId, rs) ==
  /\ AtCapacity(connections) \/ nextConn \in ConnIds
  /\ IF AtCapacity(connections)
     THEN /\ last' = [op |-> "add", ok |-> FALSE, id |-> 0]
          /\ UNCHANGED <<connections, nextConn>>
     ELSE /\ connections' = Append(connections,
                                   [id |-> nextConn, ws |-> rs, canvasId |-> canvasId,
                                    lastActivity |-> now])
          /\ nextConn' = nextConn + 1
          /\ last' = [op |-> "add", ok |-> TRUE, id |-> nextConn]
  /\ UNCHANGED <<now, engineVars, limiterVars, clientVars, received, sweepAt>>

\* the peer starts the closing handshake: the socket is CLOSING until its
\* 'close' event
PeerClosing(id) ==
  /\ IndexOf(connections, id) # 0
  /\ connections[IndexOf(connections, id)].ws = OPEN
  /\ connections' = [connections EXCEPT ![IndexOf(connections, id)].ws = CLOSING]
  /\ last' = [op |-> "closing"]
  /\ UNCHANGED <<now, engineVars, limiterVars, clientVars, nextConn, received, sweepAt>>

\* ws.on('close') and ws.on('error'): removeConnection(connectionId)
SocketClose(id) ==
  /\ IndexOf(connections, id) # 0
  /\ connections' = removeConnection(connections, id)
  /\ last' = [op |-> "remove"]
  /\ UNCHANGED <<now, engineVars, limiterVars, clientVars, nextConn, received, sweepAt>>

\* ws.on('pong') and an inbound message: updateLastActivity(connectionId)
Activity(id) ==
  /\ IndexOf(connections, id) # 0
  /\ connections' = updateLastActivity(connections, id)
  /\ last' = [op |-> "activity"]
  /\ UNCHANGED <<now, engineVars, limiterVars, clientVars, nextConn, received, sweepAt>>

\* a broadcast that does not skip the sender
MutSkipped(connection, canvasId, excludeConnectionId) ==
  connection.canvasId # canvasId \/ connection.ws # OPEN

\* the two "continue" tests of broadcastToCanvas
Skipped(connection, canvasId, excludeConnectionId) ==
  \/ connection.canvasId # canvasId \/ connection.id = excludeConnectionId
  \/ connection.ws # OPEN

\* the for-of loop of broadcastToCanvas from entry i of the Map on.  a holds
\* the arguments and the entries the loop began with, h the registry and the
\* history so far; a.throws are the connections whose ws.send throws.  An
\* entry deleted since the loop began is not visited.
RECURSIVE broadcastFrom(_, _, _)
broadcastFrom(a, i, h) ==
  IF i > Len(a.entries) THEN h
  ELSE LET connId == a.entries[i].id
           at == IndexOf(h.connections, connId)
       IN IF at = 0 THEN broadcastFrom(a, i + 1, h)
          ELSE IF Skipped(h.connections[at], a.canvasId, a.excludeConnectionId)
          THEN broadcastFrom(a, i + 1, h)
          ELSE IF connId \in a.throws
          THEN broadcastFrom(a, i + 1,
                 [h EXCEPT !.connections = removeConnection(@, connId)])
          ELSE broadcastFrom(a, i + 1,
                 [h EXCEPT !.received[connId] = Append(@, a.messageStr),
                           !.connections = updateLastActivity(@, connId),
                           !.sentCount = @ + 1])

\* broadcastToCanvas(canvasId, message, excludeConnectionId); 0 stands for
\* no excludeConnectionId
BroadcastToCanvas(canvasId, message, excludeConnectionId, throws) ==
  /\ throws \subseteq IdsOf(connections)
  /\ \A i \in 1..Len(connections) :
       connections[i].id \in throws =>
          ~Skipped(connections[i], canvasId, excludeConnectionId)
  /\ LET a == [entries |-> connections, canvasId |-> canvasId,
               messageStr |-> Stringify(message),
               excludeConnectionId |-> excludeConnectionId, throws |-> throws]
         h == broadcastFrom(a, 1, [connections |-> connections,
                                   received |-> [id \in ConnIds |-> <<>>],
                                   sentCount |-> 0])
     IN /\ connections' = h.connections
        /\ received' = h.received
        /\ last' = [op |-> "broadcast", canvasId |-> canvasId, message |-> message,
                     excludeConnectionId |-> excludeConnectionId,
                     throws |-> throws, sentCount |-> h.sentCount]
  /\ UNCHANGED <<now, engineVars, limiterVars, clientVars, nextConn, sweepAt>>

\* an inactivity test that removes at the timeout already
MutInactive(connection) == now - connection.lastActivity >= INACTIVITY_TIMEOUT

\* inactiveTime > this.INACTIVITY_TIMEOUT
Inactive(connection) == now - connection.lastActivity > INACTIVITY_TIMEOUT

RECURSIVE removeEach(_, _)
removeEach(conns, ids) ==
  IF ids = <<>> THEN conns
  ELSE removeEach(removeConnection(conns, Head(ids)), Tail(ids))

\* the setInterval callback of startInactivityCleanup; throws are the
\* connections whose ws.ping throws
Sweep(throws) ==
  /\ now >= sweepAt
  /\ LET pinged == {connections[i].id : i \in
                      {j \in 1..Len(connections) :
                         ~Inactive(connections[j]) /\ connections[j].ws = OPEN}}
         inactiveConnections ==
           SelectSeq(connections, LAMBDA c : Inactive(c) \/ c.id \in throws)
     IN /\ throws \subseteq pinged
        /\ connections' = removeEach(connections,
                                     [i \in 1..Len(inactiveConnections) |->
                                        inactiveConnections[i].id])
        /\ last' = [op |-> "sweep", pinged |-> pinged, throws |-> throws,
                     removed |-> IdsOf(inactiveConnections)]
  /\ sweepAt' = now + SweepEvery
  /\ UNCHANGED <<now, engineVars, limiterVars, clientVars, nextConn, received>>

----------------------------------------------------------------------------
(* server.ts: the 'message' handler of a WebSocket connection, for the      *)
(* sync_to_backend message                                                 *)

\* what a client may put into the source field of a message or an element;
\* "none" stands for a message or an element without the field
ClientSources == {"none", "frontend", "mcp", "user"}
ClientElement(id, source) == [id |-> id, x |-> 0, isDeleted |-> FALSE, source |-> source]
SyncMsgs ==
  {[type |-> "sync_to_backend", source |-> "frontend", hasElements |-> TRUE,
    elements |-> <<ClientElement("e1", "none"), ClientElement("e2", "frontend")>>],
   [type |-> "sync_to_backend", source |-> "none", hasElements |-> TRUE,
    elements |-> <<ClientElement("e1", "user")>>],
   [type |-> "sync_to_backend", source |-> "user", hasElements |-> FALSE,
    elements |-> <<>>]}

\* a cleaning that lets the element's own fields win over source: 'mcp'
MutCleanedElements(elements) ==
  [i \in 1..Len(elements) |->
     IF elements[i].source = "none" THEN [elements[i] EXCEPT !.source = "mcp"]
     ELSE elements[i]]

\* message.elements.map(el => { const {source, ...elementWithoutSource} = el;
\*                              return {...elementWithoutSource, source: 'mcp'} })
cleanedElements(elements) ==
  [i \in 1..Len(elements) |-> [elements[i] EXCEPT !.source = "mcp"]]

\* the sync_response the handler builds, for the sender and for the broadcast
SyncResponse(canvasId, elements) ==
  [type |-> "sync_response", canvasId |-> canvasId, elements |-> elements,
   timestamp |-> now, source |-> "mcp"]
\* the error messages of the handler: type, error, timestamp
ErrorMessage(code) ==
  [type |-> "error", canvasId |-> <<>>, elements |-> <<>>, timestamp |-> now,
   source |-> "none", code |-> code]

NoneReceived == [id \in ConnIds |-> <<>>]

\* a sendToConnection that drops the message
MutSendToConnection(h, connectionId, message, throws) == h

\* sendToConnection(connectionId, message) on h (registry and history):
\* nothing without an entry or on a socket that is not open; a ws.send that
\* throws removes the connection
sendToConnection(h, connectionId, message, throws) ==
  LET at == IndexOf(h.connections, connectionId)
  IN IF at = 0 THEN h
     ELSE IF h.connections[at].ws # OPEN THEN h
     ELSE IF connectionId \in throws
     THEN [h EXCEPT !.connections = removeConnection(@, connectionId)]
     ELSE [h EXCEPT !.received[connectionId] = Append(@, Stringify(message)),
                    !.connections = updateLastActivity(@, connectionId),
                    !.sentCount = @ + 1]

OpenIds(conns) == {conns[i].id : i \in {j \in 1..Len(conns) : conns[j].ws = OPEN}}

\* ws.on('message') with a sync_to_backend message, up to its first
\* suspension: updateLastActivity, the rate limit (an error message and
\* return), delete message.source, the cleaning of the elements, getCanvas
\* (the canvas is cached: the connection handler loaded it), the elements
\* replaced, canvas.version++, storage.saveCanvas
SyncMessage(p, connectionId, message, throws) ==
  /\ CanStart(p)
  /\ IndexOf(connections, connectionId) # 0
  /\ canvases[connections[IndexOf(connections, connectionId)].canvasId] # 0
  /\ LET canvasId == connections[IndexOf(connections, connectionId)].canvasId
         o == canvases[canvasId]
         active == updateLastActivity(connections, connectionId)
         limit == checkLimit(requests, connectionId)
         c == [op |-> "sync", cid |-> canvasId, eid |-> "", data |-> NoData,
               pc |-> "done", obj |-> o, result |-> "ok", ret |-> NoElem,
               count |-> 0, at |-> now, pre |-> NoElem, before |-> heap[o].elements,
               conn |-> connectionId, message |-> message, answered |-> TRUE,
               cleaned |-> <<>>]
     IN /\ requests' = limit.requests
        /\ IF ~limit.ok
           THEN LET h == sendToConnection([connections |-> active,
                                           received |-> NoneReceived, sentCount |-> 0],
                                          connectionId,
                                          ErrorMessage("RATE_LIMIT_EXCEEDED"), throws)
                IN /\ throws \subseteq OpenIds(connections) \cap {connectionId}
                   /\ connections' = h.connections
                   /\ received' = h.received
                   /\ last' = [op |-> "sync", step |-> "limited", conn |-> connectionId,
                               message |-> message]
                   /\ calls' = [calls EXCEPT ![p] =
                                  [c EXCEPT !.result = "RATE_LIMIT_EXCEEDED"]]
                   /\ UNCHANGED <<heap, accessOrder, pendingSaves>>
           ELSE /\ throws = {}
                /\ connections' = active
                /\ last' = [op |-> "sync", step |-> "received", conn |-> connectionId,
                            message |-> message]
                /\ UNCHANGED received
                /\ IF ~message.hasElements
                   THEN /\ calls' = [calls EXCEPT ![p] = c]
                        /\ UNCHANGED <<heap, accessOrder, pendingSaves>>
                   ELSE /\ accessOrder' = markAccessed(accessOrder, canvasId)
                        /\ heap' = [heap EXCEPT ![o] =
                                      [@ EXCEPT !.elements = cleanedElements(message.elements),
                                                !.version = @ + 1]]
                        /\ pendingSaves' = saveCanvas(pendingSaves, heap[o].id, o, p)
                        /\ calls' = [calls EXCEPT ![p] =
                                       [c EXCEPT !.pc = "saving", !.answered = FALSE,
                                                 !.cleaned = cleanedElements(message.elements)]]
  /\ UNCHANGED <<now, canvases, lastSave, writes, disk, tmp, wcount>>
  /\ UNCHANGED <<config, cleanupAt, rlog, nextConn, sweepAt, clientVars>>

\* the handlers whose await storage.saveCanvas has been settled and which
\* have not gone on yet; they go on in the order of their promises
Unanswered == {p \in Procs : calls[p].op = "sync" /\ calls[p].pc = "done"
                              /\ ~calls[p].answered}

\* the handler after await storage.saveCanvas: sync_response to the sender
\* and broadcastToCanvas to the others, or the SYNC_ERROR message of the
\* catch block
SyncRespond(p, throws) ==
  /\ p \in Unanswered
  /\ \A q \in Unanswered : p <= q
  /\ throws \subseteq OpenIds(connections)
  /\ LET c == calls[p]
         h0 == [connections |-> connections, received |-> NoneReceived, sentCount |-> 0]
     IN IF c.result = "ok"
        THEN LET message == SyncResponse(c.cid, c.cleaned)
                 h1 == sendToConnection(h0, c.conn, message, throws)
                 h2 == broadcastFrom([entries |-> h1.connections, canvasId |-> c.cid,
                                      messageStr |-> Stringify(message),
                                      excludeConnectionId |-> c.conn,
                                      throws |-> throws], 1, h1)
             IN /\ connections' = h2.connections
                /\ received' = h2.received
                /\ last' = [op |-> "sync", step |-> "response", conn |-> c.conn,
                            message |-> c.message]
        ELSE LET h1 == sendToConnection(h0, c.conn, ErrorMessage("SYNC_ERROR"), throws)
             IN /\ throws \subseteq {c.conn}
                /\ connections' = h1.connections
                /\ received' = h1.received
                /\ last' = [op |-> "sync", step |-> "error", conn |-> c.conn,
                            message |-> c.message]
  /\ calls' = [calls EXCEPT ![p].answered = TRUE]
  /\ UNCHANGED <<now, heap, canvases, accessOrder, pendingSaves, lastSave, writes,
                 disk, tmp, wcount>>
  /\ UNCHANGED <<limiterVars, nextConn, sweepAt, clientVars>>

\* WSManager.broadcastElementCreated / Updated / Deleted and
\* sendInitialElements: the messages they build

ElementEvents == {"element_created", "element_updated", "element_deleted"}
\* what the callers pass as source: the MCP tools 'mcp', the HTTP routes 'http'
EventSources == {"mcp", "http"}

\* an element event that leaves out the source
MutElementMessage(type, element, source) ==
  [type |-> type, canvasId |-> <<>>, elements |-> <<element>>, timestamp |-> now,
   source |-> "none"]

\* {type, element (elementId for element_deleted), timestamp, source}
ElementMessage(type, element, source) ==
  [type |-> type, canvasId |-> <<>>, elements |-> <<element>>, timestamp |-> now,
   source |-> source]

\* {type: 'initial_elements', elements, timestamp}
InitialElements(elements) ==
  [type |-> "initial_elements", canvasId |-> <<>>, elements |-> elements,
   timestamp |-> now, source |-> "none"]

BroadcastElement(type, source, excludeConnectionId, throws) ==
  BroadcastToCanvas(IdA, ElementMessage(type, ClientElement("e1", "mcp"), source),
                    excludeConnectionId, throws)

\* sendInitialElements(connectionId, getActiveElements(canvasId)), as the
\* connection handler and the sync_request handler call it
SendInitialElements(connectionId, throws) ==
  /\ IndexOf(connections, connectionId) # 0
  /\ throws \subseteq OpenIds(connections) \cap {connectionId}
  /\ LET canvasId == connections[IndexOf(connections, connectionId)].canvasId
         h == sendToConnection([connections |-> connections, received |-> NoneReceived,
                                sentCount |-> 0],
                               connectionId,
                               InitialElements(getActiveElements(canvasId)), throws)
     IN /\ connections' = h.connections
        /\ received' = h.received
        /\ last' = [op |-> "initial", conn |-> connectionId, sentCount |-> h.sentCount]
  /\ UNCHANGED <<now, engineVars, limiterVars, clientVars, nextConn, sweepAt>>

----------------------------------------------------------------------------
(***************************************************************************)
(* App.tsx, one instance per connection: the scene of the Excalidraw        *)
(* canvas, the push of the scene to the server and handleWebSocketMessage.  *)
(***************************************************************************)

\* JSON.parse(event.data)
Parse(data) == data[2]

\* toServerElements(elements, 'frontend'): the server metadata added
toServerElements(elements) ==
  [i \in 1..Len(elements) |->
     [id |-> elements[i].id, x |-> elements[i].x, isDeleted |-> elements[i].isDeleted,
      source |-> "frontend"]]

\* cleanElementForExcalidraw: the server metadata removed
cleanElementForExcalidraw(element) ==
  [id |-> element.id, x |-> element.x, isDeleted |-> element.isDeleted]

SceneIds(elements) == {elements[i].id : i \in 1..Len(elements)}

\* the merge of handleWebSocketMessage: an incoming element replaces the scene
\* element of its id, the others are added at the end
mergedElements(currentElements, incoming) ==
  LET cleaned == [i \in 1..Len(incoming) |-> cleanElementForExcalidraw(incoming[i])]
      at(id) == CHOOSE i \in 1..Len(cleaned) :
                  cleaned[i].id = id /\ \A j \in (i + 1)..Len(cleaned) : cleaned[j].id # id
      updated == [i \in 1..Len(currentElements) |->
                    IF currentElements[i].id \in SceneIds(cleaned)
                    THEN cleaned[at(currentElements[i].id)] ELSE currentElements[i]]
  IN updated \o SelectSeq(cleaned, LAMBDA el : el.id \notin SceneIds(currentElements))

\* handleWebSocketMessage: the scene it leaves.  Messages whose source is
\* 'frontend' are ignored, sync_response updates the sync status only, the
\* element events and initial_elements are merged into the scene.
handleWebSocketMessage(elements, message) ==
  IF message.source = "frontend" THEN elements
  ELSE IF message.type = "sync_response" THEN elements
  ELSE IF message.type \in {"initial_elements", "element_created", "element_updated",
                            "element_deleted"}
  THEN IF Len(message.elements) > 0 THEN mergedElements(elements, message.elements)
       ELSE elements
  ELSE elements

\* the sync_to_backend message of syncToBackend
PushMessage(elements) ==
  [type |-> "sync_to_backend", source |-> "frontend", hasElements |-> TRUE,
   elements |-> toServerElements(elements)]

\* the user of client id draws element e
Draw(id, e) ==
  /\ id \in IdsOf(connections)
  /\ e \notin SceneIds(scene[id])
  /\ scene' = [scene EXCEPT ![id] = Append(@, [id |-> e, x |-> 0, isDeleted |-> FALSE])]
  /\ UNCHANGED <<wsRef, isConnected, reconnectTimeoutRef, reconnectCount, messageBuffer,
                 intentionalClose, sockets, timers, sendCount, attempts, hookOp, handled>>
  /\ UNCHANGED <<now, engineVars, limiterVars, hubVars>>

\* ws.onmessage of client id with the i-th message the server sent it last
Receive(id, i) ==
  /\ i \in 1..Len(received[id])
  /\ \A k \in 1..Len(handled[id]) : handled[id][k] # received[id][i]
  /\ handled' = [handled EXCEPT ![id] = Append(@, received[id][i])]
  /\ scene' = [scene EXCEPT ![id] = handleWebSocketMessage(@, Parse(received[id][i]))]
  /\ UNCHANGED <<wsRef, isConnected, reconnectTimeoutRef, reconnectCount, messageBuffer,
                 intentionalClose, sockets, timers, sendCount, attempts, hookOp>>
  /\ UNCHANGED <<now, engineVars, limiterVars, hubVars>>

\* no client has drawn or received anything
AppIdle ==
  /\ scene = [id \in ConnIds |-> <<>>]
  /\ handled = [id \in ConnIds |-> <<>>]

----------------------------------------------------------------------------
(***************************************************************************)
(* useWebSocket, the client hook.  A socket is its index in sockets; a      *)
(* reconnection timer is named by the socket whose close event set it (a    *)
(* socket closes once).  The delay of a timer is random (jitter), so a      *)
(* pending timer may fire at any later macrotask.                           *)
(***************************************************************************)
CONNECTING == 0   \* WebSocket.readyState

NewSocket == [readyState |-> CONNECTING, sent |-> <<>>, closeCalled |-> FALSE]

SocketIds == 1..ClientSockets

IsOpen(socks, ref) == ref # 0 /\ socks[ref].readyState = OPEN

\* connect(): nothing when wsRef.current is OPEN, else a new socket that wsRef takes
connect(ref, socks) ==
  IF IsOpen(socks, ref)
  THEN [wsRef |-> ref, sockets |-> socks]
  ELSE [wsRef |-> Len(socks) + 1, sockets |-> Append(socks, NewSocket)]

\* ws.close(): CONNECTING and OPEN become CLOSING, the close event comes later
close(socks, s) ==
  [socks EXCEPT ![s] = [@ EXCEPT !.readyState = IF @ \in {CONNECTING, OPEN} THEN CLOSING ELSE @,
                                 !.closeCalled = TRUE]]

\* disconnect(): the refs it leaves
disconnect ==
  [timers  |-> IF reconnectTimeoutRef # 0 THEN timers \ {reconnectTimeoutRef} ELSE timers,
   sockets |-> IF wsRef # 0 THEN close(sockets, wsRef) ELSE sockets]

\* the buffer after one more message: the oldest goes when the limit is passed
Buffered(buffer, m) ==
  LET pushed == Append(buffer, m)
  IN IF Len(pushed) > MaxBuffer THEN Tail(pushed) ELSE pushed

\* send(message)
Send ==
  /\ sendCount < ClientSends
  /\ LET m == sendCount + 1
     IN IF IsOpen(sockets, wsRef)
        THEN /\ sockets' = [sockets EXCEPT ![wsRef].sent = Append(@, m)]
             /\ UNCHANGED messageBuffer
        ELSE /\ messageBuffer' = Buffered(messageBuffer, m)
             /\ UNCHANGED sockets
  /\ sendCount' = sendCount + 1
  /\ hookOp' = [op |-> "send", socket |-> 0]
  /\ UNCHANGED <<wsRef, isConnected, reconnectTimeoutRef, reconnectCount,
                 intentionalClose, timers, attempts>>
  /\ UNCHANGED <<now, engineVars, limiterVars, hubVars, appVars>>

\* disconnect()
Disconnect ==
  /\ intentionalClose' = TRUE
  /\ timers' = disconnect.timers
  /\ reconnectTimeoutRef' = 0
  /\ sockets' = disconnect.sockets
  /\ wsRef' = 0
  /\ isConnected' = FALSE
  /\ hookOp' = [op |-> "disconnect", socket |-> wsRef]
  /\ UNCHANGED <<reconnectCount, messageBuffer, sendCount, attempts>>
  /\ UNCHANGED <<now, engineVars, limiterVars, hubVars, appVars>>

\* reconnect(): disconnect(), the counter reset, connect()
Reconnect ==
  /\ Len(sockets) < ClientSockets
  /\ LET c == connect(0, disconnect.sockets)
     IN /\ sockets' = c.sockets
        /\ wsRef' = c.wsRef
  /\ intentionalClose' = TRUE
  /\ timers' = disconnect.timers
  /\ reconnectTimeoutRef' = 0
  /\ isConnected' = FALSE
  /\ reconnectCount' = 0
  /\ hookOp' = [op |-> "reconnect", socket |-> wsRef]
  /\ UNCHANGED <<messageBuffer, sendCount, attempts>>
  /\ UNCHANGED <<now, engineVars, limiterVars, hubVars, appVars>>

\* the open event of socket s: ws.onopen
SocketOpen(s) ==
  /\ s \in 1..Len(sockets)
  /\ sockets[s].readyState = CONNECTING
  /\ isConnected' = TRUE
  /\ reconnectCount' = 0
  /\ sockets' = [sockets EXCEPT ![s] = [@ EXCEPT !.readyState = OPEN,
                                                 !.sent = @ \o messageBuffer]]
  /\ messageBuffer' = <<>>
  /\ attempts' = 0
  /\ hookOp' = [op |-> "open", socket |-> s]
  /\ UNCHANGED <<wsRef, reconnectTimeoutRef, intentionalClose, timers, sendCount>>
  /\ UNCHANGED <<now, engineVars, limiterVars, hubVars, appVars>>

\* the close event of socket s (a failed connection, the server or the network
\* closing it, or the end of a close() the hook called): ws.onclose
SocketClosed(s) ==
  /\ s \in 1..Len(sockets)
  /\ sockets[s].readyState # CLOSED
  /\ sockets' = [sockets EXCEPT ![s].readyState = CLOSED]
  /\ isConnected' = FALSE
  /\ wsRef' = 0
  /\ IF ~intentionalClose /\ reconnectCount < reconnectAttempts
     THEN /\ timers' = timers \cup {s}
          /\ reconnectTimeoutRef' = s
     ELSE UNCHANGED <<timers, reconnectTimeoutRef>>
  /\ intentionalClose' = FALSE
  /\ hookOp' = [op |-> "close", socket |-> s]
  /\ UNCHANGED <<reconnectCount, messageBuffer, sendCount, attempts>>
  /\ UNCHANGED <<now, engineVars, limiterVars, hubVars, appVars>>

\* the reconnection timer t fires: the counter goes up and connect() runs
ReconnectTimer(t) ==
  /\ t \in timers
  /\ Len(sockets) < ClientSockets \/ IsOpen(sockets, wsRef)
  /\ timers' = timers \ {t}
  /\ reconnectCount' = reconnectCount + 1
  /\ attempts' = attempts + 1
  /\ LET c == connect(wsRef, sockets)
     IN /\ sockets' = c.sockets
        /\ wsRef' = c.wsRef
  /\ hookOp' = [op |-> "timer", socket |-> t]
  /\ UNCHANGED <<isConnected, reconnectTimeoutRef, messageBuffer, intentionalClose, sendCount>>
  /\ UNCHANGED <<now, engineVars, limiterVars, hubVars, appVars>>

\* the hook before its component is mounted
ClientIdle ==
  /\ wsRef = 0
  /\ isConnected = FALSE
  /\ reconnectTimeoutRef = 0
  /\ reconnectCount = 0
  /\ messageBuffer = <<>>
  /\ intentionalClose = FALSE
  /\ sockets = <<>>
  /\ timers = {}
  /\ sendCount = 0
  /\ attempts = 0
  /\ hookOp = [op |-> "none", socket |-> 0]
  /\ AppIdle

\* the hook after the mount effect called connect()
ClientMounted ==
  /\ wsRef = 1
  /\ isConnected = FALSE
  /\ reconnectTimeoutRef = 0
  /\ reconnectCount = 0
  /\ messageBuffer = <<>>
  /\ intentionalClose = FALSE
  /\ sockets = <<NewSocket>>
  /\ timers = {}
  /\ sendCount = 0
  /\ attempts = 0
  /\ hookOp = [op |-> "mount", socket |-> 1]
  /\ AppIdle

----------------------------------------------------------------------------
\* the RateLimiter constructed and unused
LimiterIdle ==
  /\ config = [windowMs |-> 1, maxRequests |-> 1]
  /\ requests = [k \in Keys |-> NoEntry]
  /\ cleanupAt = StartTime + 1
  /\ rlog = <<>>

\* the WSManager constructed, no connection yet
HubIdle ==
  /\ connections = <<>>
  /\ nextConn = 1
  /\ received = [id \in ConnIds |-> <<>>]
  /\ sweepAt = StartTime + SweepEvery
  /\ last = NoOp

SideIdle == LimiterIdle /\ HubIdle /\ ClientIdle

Init ==
  /\ SideIdle
  /\ now = StartTime
  /\ heap = <<>>
  /\ canvases = [c \in CanvasIds |-> 0]
  /\ accessOrder = <<>>
  /\ calls = [p \in Procs |-> IdleCall]
  /\ pendingSaves = [c \in CanvasIds |-> NoPending]
  /\ lastSave = [c \in CanvasIds |-> 0]
  /\ writes = {}
  /\ disk = [f \in Paths |-> NoFile]
  /\ tmp = [f \in Paths |-> NoFile]
  /\ wcount = [c \in CanvasIds |-> 0]

\* CanvasStorage driven directly, as by its unit tests: saves of one id,
\* three clock ticks
StoreIds == {IdA}
StoreNext ==
  \/ \E p \in 1..StoreCalls, cid \in StoreIds : StartSave(p, cid)
  \/ \E id \in CanvasIds : TimerFire(id)
  \/ \E w \in writes : WriteFileOk(w)
  \/ \E w \in writes : WriteFileFail(w)
  \/ \E w \in writes : RenameOk(w)
  \/ \E w \in writes : RenameFail(w)
  \/ \E w \in writes : UnlinkDone(w)
  \/ now < StartTime + StoreTicks /\ Tick

StoreSpec == Init /\ [][StoreNext]_vars

\* the clock of the fair specification: it also runs as long as a timer is
\* still to come, so that every setTimeout gets due
TimerAhead == \E id \in CanvasIds :
                pendingSaves[id] # NoPending /\ pendingSaves[id].timeoutAt > now
FairTick == (now < StartTime + FairTicks \/ TimerAhead) /\ Tick

FairNext ==
  \/ \E p \in 1..FairCalls, cid \in StoreIds : StartSave(p, cid)
  \/ \E id \in CanvasIds : TimerFire(id)
  \/ \E w \in writes : WriteFileOk(w)
  \/ \E w \in writes : WriteFileFail(w)
  \/ \E w \in writes : RenameOk(w)
  \/ \E w \in writes : RenameFail(w)
  \/ \E w \in writes : UnlinkDone(w)
  \/ FairTick

\* the event loop runs every timer that is due and the file system ends every
\* operation it was given, with one outcome or the other; time passes
FairStoreSpec ==
  /\ Init /\ [][FairNext]_vars
  /\ WF_vars(\E id \in CanvasIds : TimerFire(id))
  /\ WF_vars(\E w \in writes : WriteFileOk(w) \/ WriteFileFail(w))
  /\ WF_vars(\E w \in writes : RenameOk(w) \/ RenameFail(w))
  /\ WF_vars(\E w \in writes : UnlinkDone(w))
  /\ WF_vars(FairTick)

\* payloads of createElement and updateElement
D(fields, id, version, locked, x) ==
  [fields |-> fields, id |-> id, version |-> version, isDeleted |-> FALSE,
   locked |-> locked, x |-> x]
CreateData == {D({"id"}, "e1", 0, FALSE, 0),
               D({"id", "locked"}, "e1", 0, TRUE, 0),
               D({}, "", 0, FALSE, 0)}
UpdateData == {D({"x"}, "", 0, FALSE, 1),
               D({"locked"}, "", 0, FALSE, 0),
               D({"id", "version", "x"}, "e2", 0, FALSE, 1)}

\* Element CRUD on one canvas, whose snapshot an earlier run has left on disk
\* or not.  The calls are issued one after the other (each once the one before it has
\* returned), and the clock advances while a save timer is waiting.
Returned == \A p \in Procs : calls[p].pc \in {"idle", "done"}
TimerWaiting ==
  \E c \in CanvasIds : pendingSaves[c] # NoPending /\ pendingSaves[c].timeoutAt > now
Next ==
  \/ Returned /\ \E p \in 1..ElemCalls, d \in CreateData : Start(p, "create", IdA, "", d)
  \/ Returned /\ \E p \in 1..ElemCalls, d \in UpdateData : Start(p, "update", IdA, "e1", d)
  \/ Returned /\ \E p \in 1..ElemCalls : Start(p, "delete", IdA, "e1", NoData)
  \/ Returned /\ \E p \in 1..ElemCalls : Start(p, "clear", IdA, "", NoData)
  \/ \E p \in Procs : LoadFound(p)
  \/ \E p \in Procs : LoadMissing(p)
  \/ \E p \in Procs : GcResume(p)
  \/ \E id \in CanvasIds : TimerFire(id)
  \/ \E w \in writes : WriteFileOk(w)
  \/ \E w \in writes : WriteFileFail(w)
  \/ \E w \in writes : RenameOk(w)
  \/ \E w \in writes : RenameFail(w)
  \/ \E w \in writes : UnlinkDone(w)
  \/ TimerWaiting /\ Tick

InitElem ==
  /\ SideIdle
  /\ now = StartTime
  /\ heap = <<>>
  /\ canvases = [c \in CanvasIds |-> 0]
  /\ accessOrder = <<>>
  /\ calls = [p \in Procs |-> IdleCall]
  /\ pendingSaves = [c \in CanvasIds |-> NoPending]
  /\ lastSave = [c \in CanvasIds |-> 0]
  /\ writes = {}
  /\ \E file \in {NoFile, Serialize(createNewCanvas(IdA))} :
       disk = [f \in Paths |-> IF f = getCanvasPath(IdA) THEN file ELSE NoFile]
  /\ tmp = [f \in Paths |-> NoFile]
  /\ wcount = [c \in CanvasIds |-> 0]

Spec == InitElem /\ [][Next]_vars

\* The cache over three canvases, two of which have a snapshot on disk from
\* an earlier run.  getCanvas calls overlap freely; a load completes while
\* no write is executing.
InitWarm ==
  /\ SideIdle
  /\ now = StartTime
  /\ heap = <<>>
  /\ canvases = [c \in CanvasIds |-> 0]
  /\ accessOrder = <<>>
  /\ calls = [p \in Procs |-> IdleCall]
  /\ pendingSaves = [c \in CanvasIds |-> NoPending]
  /\ lastSave = [c \in CanvasIds |-> 0]
  /\ writes = {}
  /\ disk = [f \in Paths |-> IF f \in {getCanvasPath(IdA), getCanvasPath(IdB)}
                             THEN Serialize(createNewCanvas(f)) ELSE NoFile]
  /\ tmp = [f \in Paths |-> NoFile]
  /\ wcount = [c \in CanvasIds |-> 0]

CacheIds == {IdA, IdB, IdC}
CacheNext ==
  \/ \E p \in 1..CacheCalls, cid \in CacheIds : Start(p, "get", cid, "", NoData)
  \/ writes = {} /\ \E p \in Procs : LoadFound(p)
  \/ writes = {} /\ \E p \in Procs : LoadMissing(p)
  \/ \E p \in Procs : GcResume(p)
  \/ \E id \in CanvasIds : TimerFire(id)
  \/ \E w \in writes : WriteFileOk(w)
  \/ \E w \in writes : WriteFileFail(w)
  \/ \E w \in writes : RenameOk(w)
  \/ \E w \in writes : RenameFail(w)
  \/ \E w \in writes : UnlinkDone(w)
  \/ now < StartTime + CacheTicks /\ Tick

CacheSpec == InitWarm /\ [][CacheNext]_vars

\* Mutations and eviction: createElement on one canvas and getCanvas calls on
\* three canvases, all of which have a snapshot on disk from an earlier run.
\* A call is issued once no other call is inside getCanvas, so a
\* createElement may still be waiting for its save while later calls run;
\* the writes succeed.
Settled == \A p \in Procs : calls[p].pc \in {"idle", "done", "saving"}
InitEvict ==
  /\ SideIdle
  /\ now = StartTime
  /\ heap = <<>>
  /\ canvases = [c \in CanvasIds |-> 0]
  /\ accessOrder = <<>>
  /\ calls = [p \in Procs |-> IdleCall]
  /\ pendingSaves = [c \in CanvasIds |-> NoPending]
  /\ lastSave = [c \in CanvasIds |-> 0]
  /\ writes = {}
  /\ disk = [f \in Paths |-> IF f \in {getCanvasPath(c) : c \in CacheIds}
                             THEN Serialize(createNewCanvas(f)) ELSE NoFile]
  /\ tmp = [f \in Paths |-> NoFile]
  /\ wcount = [c \in CanvasIds |-> 0]

EvictNext ==
  \/ Settled /\ \E p \in 1..EvictCalls :
                  Start(p, "create", IdA, "", D({"id"}, "e1", 0, FALSE, 0))
  \/ Settled /\ \E p \in 1..EvictCalls, cid \in CacheIds : Start(p, "get", cid, "", NoData)
  \/ \E p \in Procs : LoadFound(p)
  \/ \E id \in CanvasIds : TimerFire(id)
  \/ \E w \in writes : WriteFileOk(w)
  \/ \E w \in writes : RenameOk(w)
  \/ now < StartTime + EvictTicks /\ Tick

EvictSpec == InitEvict /\ [][EvictNext]_vars

\* Overlapping updateElement calls on the one element of a canvas that has a
\* snapshot on disk and is, or is not, in the cache when the calls start
Stored == [id |-> IdA, version |-> 1,
           elements |-> <<[NoElem EXCEPT !.id = "e1", !.version = 1]>>]
OverlapData == {D({"x"}, "", 0, FALSE, 1), D({"locked"}, "", 0, TRUE, 0)}
InitOverlap ==
  /\ SideIdle
  /\ now = StartTime
  /\ \E cached \in BOOLEAN :
       /\ heap = IF cached THEN <<Stored>> ELSE <<>>
       /\ canvases = [c \in CanvasIds |-> IF cached /\ c = IdA THEN 1 ELSE 0]
       /\ accessOrder = IF cached THEN <<[id |-> IdA, ts |-> StartTime]>> ELSE <<>>
  /\ calls = [p \in Procs |-> IdleCall]
  /\ pendingSaves = [c \in CanvasIds |-> NoPending]
  /\ lastSave = [c \in CanvasIds |-> 0]
  /\ writes = {}
  /\ disk = [f \in Paths |-> IF f = getCanvasPath(IdA) THEN Serialize(Stored) ELSE NoFile]
  /\ tmp = [f \in Paths |-> NoFile]
  /\ wcount = [c \in CanvasIds |-> 0]

OverlapNext ==
  \/ \E p \in 1..OverlapCalls, d \in OverlapData : Start(p, "update", IdA, "e1", d)
  \/ \E p \in Procs : LoadFound(p)
  \/ \E id \in CanvasIds : TimerFire(id)
  \/ \E w \in writes : WriteFileOk(w)
  \/ \E w \in writes : WriteFileFail(w)
  \/ \E w \in writes : RenameOk(w)
  \/ \E w \in writes : RenameFail(w)
  \/ \E w \in writes : UnlinkDone(w)
  \/ now < StartTime + OverlapTicks /\ Tick

OverlapSpec == InitOverlap /\ [][OverlapNext]_vars

\* Two canvas ids that differ in a character the path sanitiser drops:
\* saveCanvas with a canvas of either id and getCanvas of either id, one call
\* after the other has returned; the writes succeed
PathIds == {IdA, IdADot}
PathNext ==
  \/ Returned /\ \E p \in 1..PathCalls, cid \in PathIds : StartSave(p, cid)
  \/ Returned /\ \E p \in 1..PathCalls, cid \in PathIds : Start(p, "get", cid, "", NoData)
  \/ \E p \in Procs : LoadFound(p)
  \/ \E p \in Procs : LoadMissing(p)
  \/ \E p \in Procs : GcResume(p)
  \/ \E id \in CanvasIds : TimerFire(id)
  \/ \E w \in writes : WriteFileOk(w)
  \/ \E w \in writes : RenameOk(w)
  \/ TimerWaiting /\ Tick

PathSpec == Init /\ [][PathNext]_vars

\* A RateLimiter of any window and ceiling within the bounds, called for two
\* keys while the clock advances
EngineInit ==
  /\ now = StartTime
  /\ heap = <<>>
  /\ canvases = [c \in CanvasIds |-> 0]
  /\ accessOrder = <<>>
  /\ calls = [p \in Procs |-> IdleCall]
  /\ pendingSaves = [c \in CanvasIds |-> NoPending]
  /\ lastSave = [c \in CanvasIds |-> 0]
  /\ writes = {}
  /\ disk = [f \in Paths |-> NoFile]
  /\ tmp = [f \in Paths |-> NoFile]
  /\ wcount = [c \in CanvasIds |-> 0]

RateInit ==
  /\ EngineInit
  /\ HubIdle
  /\ ClientIdle
  /\ \E w \in 1..MaxWindow, c \in 1..MaxCeiling :
       /\ config = [windowMs |-> w, maxRequests |-> c]
       /\ cleanupAt = StartTime + w
  /\ requests = [k \in Keys |-> NoEntry]
  /\ rlog = <<>>

RateNext ==
  \/ Len(rlog) < RateCalls /\ \E k \in Keys : CheckLimit(k)
  \/ \E k \in Keys : GetUsage(k)
  \/ Len(rlog) < RateCalls /\ \E k \in Keys : Reset(k)
  \/ Cleanup
  \/ now < StartTime + RateTicks /\ Tick

RateSpec == RateInit /\ [][RateNext]_vars

\* The WSManager with connections on two canvases: sockets come and go and
\* the server broadcasts, all within one clock tick
HubInit ==
  /\ EngineInit
  /\ LimiterIdle
  /\ HubIdle
  /\ ClientIdle

HubNext ==
  \/ \E c \in {IdA, IdB} : AddConnection(c, OPEN)
  \/ \E id \in ConnIds : PeerClosing(id)
  \/ \E id \in ConnIds : SocketClose(id)
  \/ \E c \in {IdA, IdB}, m \in Msgs, x \in {0} \cup IdsOf(connections),
        t \in SUBSET IdsOf(connections) :
       BroadcastToCanvas(c, m, x, t)

\* The WSManager over time: sockets come and go, pongs and messages arrive,
\* the sweep runs every SweepEvery
SweepNext ==
  \/ AddConnection(IdA, OPEN)
  \/ \E id \in ConnIds : PeerClosing(id)
  \/ \E id \in ConnIds : SocketClose(id)
  \/ \E id \in ConnIds : Activity(id)
  \/ \E t \in SUBSET IdsOf(connections) : Sweep(t)
  \/ now < StartTime + HubTicks /\ Tick

SweepSpec == HubInit /\ [][SweepNext]_vars

HubSpec == HubInit /\ [][HubNext]_vars

\* The message handler: two clients connected to one canvas, which is cached,
\* send sync_to_backend messages with provenance of their own, one after the
\* other has been answered; the sockets start closing, the writes succeed or
\* fail, the ws.send calls succeed or throw, and the clock advances while a
\* save timer is waiting.  The limiter admits one message per connection and
\* unit of time.
InitSync ==
  /\ ClientIdle
  /\ now = StartTime
  /\ heap = <<createNewCanvas(IdA)>>
  /\ canvases = [c \in CanvasIds |-> IF c = IdA THEN 1 ELSE 0]
  /\ accessOrder = <<[id |-> IdA, ts |-> StartTime]>>
  /\ calls = [p \in Procs |-> IdleCall]
  /\ pendingSaves = [c \in CanvasIds |-> NoPending]
  /\ lastSave = [c \in CanvasIds |-> 0]
  /\ writes = {}
  /\ disk = [f \in Paths |-> IF f = getCanvasPath(IdA)
                             THEN Serialize(createNewCanvas(IdA)) ELSE NoFile]
  /\ tmp = [f \in Paths |-> NoFile]
  /\ wcount = [c \in CanvasIds |-> 0]
  /\ config = [windowMs |-> 1, maxRequests |-> 1]
  /\ requests = [id \in ConnIds |-> NoEntry]
  /\ cleanupAt = StartTime + 1
  /\ rlog = <<>>
  /\ connections = [i \in {1, 2} |->
                      [id |-> i, ws |-> OPEN, canvasId |-> IdA, lastActivity |-> StartTime]]
  /\ nextConn = Len(connections) + 1
  /\ received = NoneReceived
  /\ sweepAt = StartTime + SweepEvery
  /\ last = NoOp

SyncNext ==
  \/ \E p \in Procs, throws \in SUBSET ConnIds : SyncRespond(p, throws)
  \/ /\ Unanswered = {}
     /\ \/ Returned /\ \E p \in 1..SyncCalls, id \in ConnIds, m \in SyncMsgs :
             \E throws \in SUBSET {id} : SyncMessage(p, id, m, throws)
        \/ \E id \in CanvasIds : TimerFire(id)
        \/ \E w \in writes : WriteFileOk(w)
        \/ \E w \in writes : WriteFileFail(w)
        \/ \E w \in writes : RenameOk(w)
        \/ \E w \in writes : UnlinkDone(w)
        \/ \E id \in ConnIds : PeerClosing(id)
        \/ TimerWaiting /\ Tick

SyncSpec == InitSync /\ [][SyncNext]_vars

\* Every kind of notification: the message handler of SyncSpec with writes
\* that succeed (its error message is that of the rate limit), the element
\* events of the MCP tools and HTTP routes, and the initial snapshot
NotifyNext ==
  \/ \E p \in Procs, throws \in SUBSET ConnIds : SyncRespond(p, throws)
  \/ /\ Unanswered = {}
     /\ \/ Returned /\ \E p \in 1..NotifyCalls, id \in ConnIds, m \in SyncMsgs :
             \E throws \in SUBSET {id} : SyncMessage(p, id, m, throws)
        \/ \E id \in CanvasIds : TimerFire(id)
        \/ \E w \in writes : WriteFileOk(w)
        \/ \E w \in writes : RenameOk(w)
        \/ \E type \in ElementEvents, source \in EventSources :
             \E throws \in SUBSET OpenIds(connections) :
               BroadcastElement(type, source, 0, throws)
        \/ \E id \in ConnIds : \E throws \in SUBSET {id} : SendInitialElements(id, throws)
        \/ TimerWaiting /\ Tick

NotifySpec == InitSync /\ [][NotifyNext]_vars

\* Two clients on one canvas: each draws, pushes its scene with
\* sync_to_backend and handles the messages the server sends it
PropagateNext ==
  \/ \E p \in Procs, throws \in SUBSET ConnIds : SyncRespond(p, throws)
  \/ /\ Unanswered = {}
     /\ \/ Returned /\ \E p \in 1..PropCalls, id \in ConnIds :
             /\ scene[id] # <<>>
             /\ \E throws \in SUBSET {id} : SyncMessage(p, id, PushMessage(scene[id]), throws)
        \/ \E id \in CanvasIds : TimerFire(id)
        \/ \E w \in writes : WriteFileOk(w)
        \/ \E w \in writes : RenameOk(w)
        \/ \E id \in ConnIds, e \in ElemIds : Draw(id, e)
        \/ \E id \in ConnIds : \E i \in 1..Len(received[id]) : Receive(id, i)
        \/ TimerWaiting /\ Tick

PropagateSpec == InitSync /\ [][PropagateNext]_vars

\* The client hook after its mount: the application calls send, reconnect and
\* disconnect, the sockets open and close, the reconnection timers fire
ClientInit ==
  /\ EngineInit
  /\ LimiterIdle
  /\ HubIdle
  /\ ClientMounted

ClientNext ==
  \/ Send
  \/ Disconnect
  \/ Reconnect
  \/ \E s \in SocketIds : SocketOpen(s)
  \/ \E s \in SocketIds : SocketClosed(s)
  \/ \E t \in SocketIds : ReconnectTimer(t)

ClientSpec == ClientInit /\ [][ClientNext]_vars

----------------------------------------------------------------------------
(* Properties *)

\* p is the call issued last
Latest(p) == \A q \in Procs : q > p => calls[q].pc = "idle"
Versions(els) == [i \in 1..Len(els) |-> els[i].version]
Ids(els) == [i \in 1..Len(els) |-> els[i].id]
Returns(p, op) == calls[p].op = op /\ calls[p].pc = "done"

\* C1: createElement returns version 1; an updateElement that returns success
\* returns the version the element had before it plus 1, whatever version the
\* payload carries; an updateElement that returns an error leaves every
\* element's version as it was.
C1_VersionPlusOne ==
  \A p \in Procs :
    /\ (Returns(p, "create") /\ calls[p].result = "ok") => calls[p].ret.version = 1
    /\ (Returns(p, "update") /\ Latest(p) /\ calls[p].obj # 0) =>
         IF calls[p].result = "ok"
         THEN calls[p].ret.version = calls[p].pre.version + 1
         ELSE Versions(heap[calls[p].obj].elements) = Versions(calls[p].before)

\* C2: after a successful updateElement(canvasId, id, updates) the returned
\* element and the element stored in its place have the id argument as id, and
\* the ids of the canvas's elements are what they were, also when updates
\* carries another id.
C2_IdRetained ==
  \A p \in Procs :
    (Returns(p, "update") /\ calls[p].result = "ok" /\ Latest(p)) =>
       /\ calls[p].ret.id = calls[p].eid
       /\ heap[calls[p].obj].elements[findIndex(calls[p].before, calls[p].eid)] = calls[p].ret
       /\ Ids(heap[calls[p].obj].elements) = Ids(calls[p].before)

C2_Witness ==
  \E p \in Procs :
    /\ Returns(p, "update") /\ calls[p].result = "ok" /\ Latest(p)
    /\ Has(calls[p].data, "id") /\ calls[p].data.id # calls[p].eid

\* C3: after a successful deleteElement(canvasId, id) the row it deleted stays
\* in the element list with that id and isDeleted = true for good (so no query
\* for active elements returns it again), and a second deleteElement on the
\* id, with no createElement in between, returns ELEMENT_NOT_FOUND and leaves
\* the element list as it was.
C3_DeleteSticks ==
  \A p \in Procs :
    (Returns(p, "delete") /\ calls[p].result = "ok") =>
       LET row == heap[calls[p].obj].elements[findIndex(calls[p].before, calls[p].eid)]
       IN /\ row.id = calls[p].eid /\ row.isDeleted
          /\ \A q \in Procs :
               ( /\ q > p /\ Returns(q, "delete") /\ calls[q].eid = calls[p].eid
                 /\ ~ \E r \in Procs : p < r /\ r < q /\ calls[r].op = "create" ) =>
                    /\ calls[q].result = "ELEMENT_NOT_FOUND"
                    /\ Latest(q) => heap[calls[q].obj].elements = calls[q].before

\* C4: when updateElement or deleteElement is called with the id of an active
\* element that has locked = true, it returns ELEMENT_LOCKED and the element
\* list is left as it was.
C4_LockedRejects ==
  \A p \in Procs :
    ( /\ Returns(p, "update") \/ Returns(p, "delete")
      /\ Latest(p)
      /\ \E i \in 1..Len(calls[p].before) :
           /\ calls[p].before[i].id = calls[p].eid
           /\ ~calls[p].before[i].isDeleted
           /\ calls[p].before[i].locked ) =>
       /\ calls[p].result = "ELEMENT_LOCKED"
       /\ heap[calls[p].obj].elements = calls[p].before

\* C5: updateElement(canvasId, id, {locked: false}) on an active element that
\* has locked = true returns success.
C5_UnlockByUpdate ==
  \A p \in Procs :
    ( /\ Returns(p, "update")
      /\ calls[p].data.fields = {"locked"} /\ ~calls[p].data.locked
      /\ findIndex(calls[p].before, calls[p].eid) # 0
      /\ calls[p].before[findIndex(calls[p].before, calls[p].eid)].locked ) =>
       calls[p].result = "ok"

\* C6: as long as a canvas id stays in the cache, the object cached for it
\* (the one getCanvas returns) is the same object.
C6_SameInstance ==
  [][\A c \in CanvasIds :
       (canvases[c] # 0 /\ canvases'[c] # 0) => canvases'[c] = canvases[c]]_vars

\* C7: the cache never holds more than MAX_CANVASES canvases.
C7_CacheBounded == Size(canvases) <= MAX_CANVASES

\* C8: when all the saveCanvas calls made for an id were issued less than
\* saveThrottleMs apart and all have resolved, executeSave has written once
\* for that id and the snapshot on disk is that of the canvas passed last.
SavesOf(cid) == {p \in Procs : calls[p].op = "save" /\ calls[p].cid = cid}
LastOf(S) == CHOOSE p \in S : \A q \in S : q <= p
C8_OneWrite ==
  \A cid \in CanvasIds :
    LET S == SavesOf(cid)
    IN ( /\ S # {}
         /\ \A p \in S : calls[p].pc = "done" /\ calls[p].result = "ok"
         /\ \A p, q \in S : calls[q].at - calls[p].at < saveThrottleMs ) =>
          /\ wcount[cid] = 1
          /\ disk[getCanvasPath(cid)] = Serialize(heap[calls[LastOf(S)].obj])

C10_FailureLeavesSnapshot ==
  [][ /\ \A w \in writes :
           (w.stage = "unlink" /\ w \notin writes') =>
              /\ \A i \in 1..Len(w.promises) :
                   /\ calls'[w.promises[i]].pc = "done"
                   /\ calls'[w.promises[i]].result \in {"rejected", "INTERNAL_ERROR"}
              /\ disk'[getCanvasPath(w.canvasId)] = w.before
      /\ \A f \in Paths : disk'[f].kind # "partial" ]_vars

\* C11: a saveCanvas promise is resolved only in the step that ends, with a
\* successful rename, an executeSave holding that promise (so one started
\* after the save was issued); every promise of that executeSave is resolved
\* in the same step; and the snapshot then on disk is that save's canvas or
\* the canvas of a later save for the same id.
C11_ResolvedAfterWrite ==
  [][\A p \in Procs :
       ( /\ calls[p].op = "save" /\ calls[p].pc = "saving"
         /\ calls'[p].pc = "done" /\ calls'[p].result = "ok" ) =>
          /\ \E w \in writes :
               /\ w \notin writes' /\ w.stage = "rename" /\ InSeq(p, w.promises)
               /\ \A i \in 1..Len(w.promises) :
                    /\ calls'[w.promises[i]].pc = "done"
                    /\ calls'[w.promises[i]].result = "ok"
          /\ \E q \in Procs :
               /\ q >= p /\ calls[q].op = "save" /\ calls[q].cid = calls[p].cid
               /\ disk'[getCanvasPath(calls[p].cid)] = Serialize(heap[calls[q].obj]) ]_vars

ChecksOf(k) == {i \in 1..Len(rlog) : rlog[i].op = "check" /\ rlog[i].key = k}
NoReset(k) == \A i \in 1..Len(rlog) : ~(rlog[i].op = "reset" /\ rlog[i].key = k)
InWindowCount(k) == Len(InWindow(requests[k].timestamps, now - config.windowMs))

\* C12: for a key that is never reset, among the checkLimit calls made less
\* than windowMs after the first one, exactly the first maxRequests return
\* true and the later ones false; and a checkLimit made when windowMs or more
\* have passed since the earliest recorded timestamp returns true.
C12_WindowAdmits ==
  \A k \in Keys :
    /\ (NoReset(k) /\ ChecksOf(k) # {}) =>
         \A j \in ChecksOf(k) :
           rlog[j].at - rlog[Min(ChecksOf(k))].at < config.windowMs =>
             (rlog[j].ok <=>
                Cardinality({i \in ChecksOf(k) : i <= j}) <= config.maxRequests)
    /\ \A j \in ChecksOf(k) :
         (rlog[j].oldest # 0 /\ rlog[j].at - rlog[j].oldest >= config.windowMs) =>
            rlog[j].ok

C12_Witness ==
  \E k \in Keys :
    /\ NoReset(k)
    /\ \E j \in ChecksOf(k) :
         /\ ~rlog[j].ok
         /\ rlog[j].at - rlog[Min(ChecksOf(k))].at < config.windowMs
         /\ \E j2 \in ChecksOf(k) :
              /\ j2 > j /\ rlog[j2].ok
              /\ rlog[j2].oldest # 0
              /\ rlog[j2].at - rlog[j2].oldest >= config.windowMs

\* C13: a checkLimit that returns false leaves the key's timestamps as they
\* were, less the expired ones, and leaves the other keys alone; and no key
\* ever has more than maxRequests timestamps inside the window.
C13_RejectRecordsNothing ==
  [][ /\ \A k \in Keys : InWindowCount(k)' <= config.maxRequests
      /\ ( /\ Len(rlog') = Len(rlog) + 1
           /\ rlog'[Len(rlog')].op = "check"
           /\ ~rlog'[Len(rlog')].ok ) =>
            LET k == rlog'[Len(rlog')].key
            IN requests' = [requests EXCEPT ![k].timestamps =
                              InWindow(@, now - config.windowMs)] ]_vars

C13_Witness ==
  \E i \in 1..Len(rlog) :
    /\ rlog[i].op = "check" /\ ~rlog[i].ok
    /\ config.maxRequests > 1
    /\ InWindowCount(rlog[i].key) = config.maxRequests

\* C14: checkLimit(k1) and reset(k1) leave, for every other key k2, the
\* number of timestamps in the window, the result of getUsage(k2) and the
\* result checkLimit(k2) would give as they were; after reset(k1),
\* getUsage(k1).count is 0 and checkLimit(k1) returns true.
C14_KeysIsolated ==
  [][ Len(rlog') = Len(rlog) + 1 =>
        LET e == rlog'[Len(rlog')]
        IN /\ \A k2 \in Keys \ {e.key} :
                /\ InWindowCount(k2)' = InWindowCount(k2)
                /\ getUsage(requests', k2).count = getUsage(requests, k2).count
                /\ getUsage(requests', k2).remaining = getUsage(requests, k2).remaining
                /\ checkLimit(requests', k2).ok = checkLimit(requests, k2).ok
           /\ e.op = "reset" =>
                /\ getUsage(requests', e.key).count = 0
                /\ checkLimit(requests', e.key).ok ]_vars

C14_Witness ==
  \E i \in 1..Len(rlog), j \in 1..Len(rlog) :
    /\ i < j
    /\ rlog[i].op = "check" /\ ~rlog[i].ok
    /\ rlog[j].op = "reset" /\ rlog[j].key # rlog[i].key
    /\ ~checkLimit(requests, rlog[i].key).ok
    /\ \E j2 \in 1..Len(rlog) :
         j2 < j /\ rlog[j2].op = "check" /\ rlog[j2].key = rlog[j].key

----------------------------------------------------------------------------
\* the registered connection with this id
ConnOf(conns, id) == conns[IndexOf(conns, id)]

\* a registered connection observing canvasId, open, and not the excluded one
Eligible(conns, id, canvasId, excludeConnectionId) ==
  /\ id \in IdsOf(conns)
  /\ ConnOf(conns, id).canvasId = canvasId
  /\ ConnOf(conns, id).ws = OPEN
  /\ id # excludeConnectionId

\* C15: a broadcast hands the same serialized payload exactly once to every
\* registered connection that observes the document, is open and is not the
\* excluded one (and whose send does not throw), and hands nothing to the
\* excluded connection, to connections on other documents and to connections
\* that are not open
C15_BroadcastDelivers ==
  [][last'.op = "broadcast" =>
       \A id \in ConnIds :
         received'[id] =
           IF /\ Eligible(connections, id, last'.canvasId, last'.excludeConnectionId)
              /\ id \notin last'.throws
           THEN <<Stringify(last'.message)>> ELSE <<>>]_vars

\* a broadcast has reached two connections with the same payload and has
\* passed over the excluded one, open on the same document
C15_Witness ==
  /\ last.op = "broadcast" /\ last.sentCount = 2
  /\ \E a \in IdsOf(connections), b \in IdsOf(connections) :
       /\ a # b /\ received[a] = <<Stringify(last.message)>>
       /\ received[b] = received[a]
  /\ Eligible(connections, last.excludeConnectionId, last.canvasId, 0)
  /\ received[last.excludeConnectionId] = <<>>

\* C16: when the send to some connections throws, exactly those connections
\* are removed from the registry and every other eligible connection still
\* receives the payload and stays registered, wherever the failing connections
\* stand in the iteration
C16_FailureIsolated ==
  [][last'.op = "broadcast" =>
       /\ IdsOf(connections') = IdsOf(connections) \ last'.throws
       /\ Len(connections') = Len(connections) - Cardinality(last'.throws)
       /\ \A id \in IdsOf(connections) \ last'.throws :
            Eligible(connections, id, last'.canvasId, last'.excludeConnectionId) =>
              /\ received'[id] = <<Stringify(last'.message)>>
              /\ ConnOf(connections', id).ws = OPEN]_vars

\* a broadcast in which two sends threw, one before and one after a send that
\* succeeded
C16_Witness ==
  /\ last.op = "broadcast" /\ last.sentCount = 1
  /\ \E a \in last.throws, b \in last.throws, id \in IdsOf(connections) :
       /\ a < id /\ id < b
       /\ received[id] = <<Stringify(last.message)>>
  /\ IdsOf(connections) \cap last.throws = {}

\* C17: addConnection fails with the connection-limit error and registers
\* nothing when the registry holds MAX_CONNECTIONS connections, and registers
\* exactly one connection otherwise; the registry never holds more than
\* MAX_CONNECTIONS connections, so that one removal from a full registry makes
\* room for exactly one further addConnection
C17_ConnectionLimit ==
  /\ [](Len(connections) <= MAX_CONNECTIONS)
  /\ [][last'.op = "add" =>
          /\ last'.ok <=> Len(connections) < MAX_CONNECTIONS
          /\ ~last'.ok => connections' = connections
          /\ last'.ok =>
               /\ Len(connections') = Len(connections) + 1
               /\ IdsOf(connections') = IdsOf(connections) \cup {last'.id}
               /\ last'.id \notin IdsOf(connections)]_vars

\* the registry was full, a removal made room for one more connection, and
\* the addConnection after that one has failed
C17_Witness ==
  /\ last.op = "add" /\ ~last.ok
  /\ Len(connections) = MAX_CONNECTIONS
  /\ nextConn = MAX_CONNECTIONS + 2

\* the connection's last activity is older than the inactivity timeout
Stale(conns, id) == now - ConnOf(conns, id).lastActivity > INACTIVITY_TIMEOUT

\* this step is a run of the sweep: only the sweep moves sweepAt
SweepStep == last'.op = "sweep" /\ sweepAt' # sweepAt

\* C18 as stated: at every sweep each registered connection whose last
\* activity is older than the timeout is removed, each connection still
\* within the timeout is sent a keepalive probe, and a connection whose probe
\* throws is removed in the same sweep
C18_SweepProbesAll ==
  [][SweepStep =>
       \A id \in IdsOf(connections) :
         /\ Stale(connections, id) => id \notin IdsOf(connections')
         /\ ~Stale(connections, id) => id \in last'.pinged
         /\ id \in last'.throws => id \notin IdsOf(connections')]_vars

\* C18 amended: at every sweep each registered connection whose last activity
\* is older than the timeout is removed, each connection still within the
\* timeout whose socket is open (and no other) is sent a keepalive probe, a
\* connection whose probe throws is removed in the same sweep, and every
\* other connection stays registered as it was; so no connection older than
\* the timeout outlives a sweep
C18_SweepProbesOpen ==
  [][SweepStep =>
       /\ \A id \in IdsOf(connections) :
            /\ Stale(connections, id) => id \notin IdsOf(connections')
            /\ id \in last'.pinged <=>
                 ~Stale(connections, id) /\ ConnOf(connections, id).ws = OPEN
            /\ id \in last'.throws => id \notin IdsOf(connections')
            /\ ~Stale(connections, id) /\ id \notin last'.throws =>
                 /\ id \in IdsOf(connections')
                 /\ ConnOf(connections', id) = ConnOf(connections, id)
       /\ \A id \in IdsOf(connections') : ~Stale(connections', id)]_vars

\* a sweep has removed a connection older than the timeout and a connection
\* whose probe threw, and has left a closing connection within the timeout
\* registered and unprobed
C18_Witness ==
  /\ last.op = "sweep"
  /\ last.throws # {}
  /\ last.removed \ last.throws # {}
  /\ IdsOf(connections) \cap last.removed = {}
  /\ \E id \in IdsOf(connections) :
       ConnOf(connections, id).ws = CLOSING /\ id \notin last.pinged

\* call p of createElement has got its canvas in this step and has run to its
\* return or to its saveCanvas
CreateRuns(p) ==
  /\ calls[p].pc \in {"idle", "loading"}
  /\ calls'[p].op = "create"
  /\ calls'[p].pc \in {"saving", "done"}

\* C19: createElement fails with the error ElementLimitExceeded and appends
\* nothing when the canvas holds MAX_ELEMENTS elements, soft-deleted ones
\* included; below that it appends exactly one element; no canvas ever holds
\* more than MAX_ELEMENTS elements
C19_ElementLimit ==
  /\ [](\A o \in DOMAIN heap : Len(heap[o].elements) <= MAX_ELEMENTS)
  /\ [][\A p \in Procs : CreateRuns(p) =>
          LET before == calls'[p].before
              after == heap'[calls'[p].obj].elements
          IN IF Len(before) >= MAX_ELEMENTS
             THEN /\ calls'[p].pc = "done"
                  /\ calls'[p].result = "ELEMENT_LIMIT_EXCEEDED"
                  /\ after = before
             ELSE /\ calls'[p].pc = "saving"
                  /\ Len(after) = Len(before) + 1
                  /\ SubSeq(after, 1, Len(before)) = before]_vars

\* call p of createElement, updateElement, deleteElement or clearCanvas has
\* mutated its canvas in this step and has called saveCanvas
Mutates(p) ==
  /\ calls[p].pc \in {"idle", "loading", "gcSaving"}
  /\ calls'[p].op \in {"create", "update", "delete", "clear"}
  /\ calls'[p].pc = "saving"

\* C20: the version of a canvas strictly increases on every successful
\* mutation of the canvas and no operation ever decrements it
C20_VersionIncreases ==
  /\ [][\A o \in DOMAIN heap : heap'[o].version >= heap[o].version]_vars
  /\ [][\A p \in Procs : Mutates(p) =>
          LET o == calls'[p].obj
              loaded == disk[getCanvasPath(calls'[p].cid)]
              pre == IF o \in DOMAIN heap THEN heap[o].version
                     ELSE loaded.doc.version
          IN heap'[o].version > pre]_vars

\* C21: in no canvas do two active elements (isDeleted = false) have the
\* same id, whatever createElement (with or without an id of the caller's),
\* updateElement, deleteElement and clearCanvas calls (an import is a
\* clearCanvas and createElement calls) were made
C21_ActiveIdsUnique ==
  \A o \in DOMAIN heap :
    \A i \in 1..Len(heap[o].elements), j \in 1..Len(heap[o].elements) :
      ( /\ i # j
        /\ ~heap[o].elements[i].isDeleted
        /\ ~heap[o].elements[j].isDeleted ) =>
         heap[o].elements[i].id # heap[o].elements[j].id

\* C22: an active element that has locked = true is not soft-deleted and
\* none of its fields changes, whatever operation runs (updateElement,
\* deleteElement, clearCanvas), except that an update may unlock it
C22_LockedUntouched ==
  [][\A o \in DOMAIN heap : \A i \in 1..Len(heap[o].elements) :
       LET el == heap[o].elements[i]
       IN (el.locked /\ ~el.isDeleted) =>
            /\ i <= Len(heap'[o].elements)
            /\ \/ heap'[o].elements[i] = el
               \/ heap'[o].elements[i] =
                    [el EXCEPT !.locked = FALSE, !.version = el.version + 1]]_vars

\* the rows of els that are not soft-deleted
Active(els) == SelectSeq(els, LAMBDA el : ~el.isDeleted)

C23_WitnessEmpty ==
  \E p \in Procs :
    /\ Returns(p, "clear") /\ calls[p].result = "ok"
    /\ calls[p].count = 0 /\ calls[p].before = <<>>

\* C24: the canvas a getCanvas call returns holds every element that an
\* earlier successful createElement on that canvas id appended, also when the
\* canvas was evicted from the cache in between and the save of that
\* mutation had not been written when it was evicted
C24_EvictedNotLost ==
  \A p \in Procs, q \in Procs :
    ( /\ Returns(p, "get") /\ calls[p].result = "ok"
      /\ q < p /\ calls[q].op = "create" /\ calls[q].cid = calls[p].cid
      /\ calls[q].pc \in {"saving", "done"} /\ calls[q].result = "ok" ) =>
       \E i \in 1..Len(heap[calls[p].obj].elements) :
         heap[calls[p].obj].elements[i] = calls[q].ret

\* accessOrder.get(id)
TsOf(ao, id) == ao[CHOOSE i \in 1..Len(ao) : ao[i].id = id].ts

\* getCanvas returns its canvas to call p in this step
GotCanvas(p) ==
  /\ calls[p].pc \in {"idle", "loading", "gcResume"}
  /\ calls'[p].pc \in {"saving", "done"}
  /\ calls'[p].op \in {"get", "create", "update", "delete", "clear"}
  /\ calls'[p].obj # 0

\* C25: a canvas leaves the cache only in a getCanvas of an id that is not
\* cached, made while the cache holds MAX_CANVASES canvases or more; one canvas
\* leaves then, and no cached canvas has an older access timestamp than it;
\* and when getCanvas returns a canvas (for a getCanvas call or inside a CRUD
\* call), that canvas has the newest access timestamp
C25_StrictLazyLRU ==
  [][/\ \A c \in CanvasIds :
          (canvases[c] # 0 /\ canvases'[c] = 0) =>
             /\ \E p \in Procs :
                  /\ calls[p].pc = "idle" /\ calls'[p].pc = "loading"
                  /\ canvases[calls'[p].cid] = 0
             /\ Size(canvases) >= MAX_CANVASES
             /\ Size(canvases') = Size(canvases) - 1
             /\ \A d \in CanvasIds :
                  canvases[d] # 0 => TsOf(accessOrder, c) <= TsOf(accessOrder, d)
     /\ \A p \in Procs :
          GotCanvas(p) =>
             /\ canvases'[calls'[p].cid] = calls'[p].obj
             /\ TsOf(accessOrder', calls'[p].cid) = now
             /\ \A i \in 1..Len(accessOrder') : accessOrder'[i].ts <= now]_vars

\* a canvas a call had returned was evicted afterwards, the cache being full,
\* while another canvas that was accessed later stayed
C25_Witness ==
  \E c \in CanvasIds, q \in Procs :
    /\ calls[q].cid = c /\ calls[q].pc = "done" /\ calls[q].result = "ok"
    /\ canvases[c] = 0
    /\ \E r \in Procs :
         /\ r > q /\ calls[r].pc = "done" /\ canvases[calls[r].cid] # 0
         /\ \E t \in Procs : t > r /\ calls[t].pc = "loading"

CrudOps == {"create", "update", "delete", "clear"}

Saves(p) == calls[p].pc \notin {"saving", "gcSaving"} /\ calls'[p].pc \in {"saving", "gcSaving"}

\* C27 as stated: a saveCanvas for an id that has a write scheduled replaces
\* the pending canvas and does not postpone the write: the write stays due at
\* the time it was due before (at once, when that time has passed already)
C27_TimerKept ==
  [][\A p \in Procs :
       (Saves(p) /\ pendingSaves[calls'[p].cid] # NoPending) =>
          /\ pendingSaves'[calls'[p].cid].canvas = calls'[p].obj
          /\ pendingSaves'[calls'[p].cid].timeoutAt =
               Max(now, pendingSaves[calls'[p].cid].timeoutAt)]_vars

\* C28: whatever the interleaving of saveCanvas calls with the timer and the
\* writes, when the writes succeed the snapshot on disk is in the end that of
\* the canvas passed by the most recent saveCanvas call for the id, and every
\* executeSave writes the canvas of the most recent call made before its timer
\* fired.
WritesSucceeded(cid) ==
  /\ SavesOf(cid) # {}
  /\ \A p \in SavesOf(cid) : calls[p].pc = "done" /\ calls[p].result = "ok"
C28_LatestPersisted ==
  /\ \A cid \in StoreIds :
       <>[](WritesSucceeded(cid) =>
              disk[getCanvasPath(cid)] = Serialize(heap[calls[LastOf(SavesOf(cid))].obj]))
  /\ [][\A w \in writes' \ writes :
          w.stage = "writeFile" =>
            w.data = Serialize(heap[calls[LastOf(SavesOf(w.canvasId))].obj])]_vars

\* C29: once updateElement calls on one element, overlapping or not, have all
\* returned success, the element's version has grown by one for each of them
\* and the stored element has the fields each of them set, whether or not the
\* canvas was cached when the calls started.
Updated == {p \in Procs : calls[p].op = "update" /\ calls[p].pc = "done"
                           /\ calls[p].result = "ok"}
C29_UpdatesSerialized ==
  ( /\ Cardinality(Updated) >= 2
    /\ \A p \in Procs : calls[p].pc # "idle" => p \in Updated ) =>
      LET el == getElementById(IdA, "e1")
      IN /\ el.version = Stored.elements[1].version + Cardinality(Updated)
         /\ \A p \in Updated :
              /\ Has(calls[p].data, "x") => el.x = calls[p].data.x
              /\ Has(calls[p].data, "locked") => el.locked = calls[p].data.locked

\* C30: for sync_to_backend the provenance the client supplied on the
\* message and on each element is discarded and replaced by the server's:
\* every element stored (in the cached canvas, in a scheduled or executing
\* write, on disk) and every element and sync_response sent carries source
\* 'mcp', and an error message carries no source at all.
AllFromServer(elements) == \A i \in 1..Len(elements) : elements[i].source = "mcp"
C38_FailureChangesNothing ==
  [][\A p \in Procs :
       ( /\ calls[p].pc # "done" /\ calls'[p].pc = "done"
         /\ calls'[p].op \in CrudOps
         /\ calls'[p].result # "ok"
         /\ calls'[p].obj # 0 ) =>
           heap'[calls'[p].obj].elements = calls'[p].before]_vars

\* C39: at any time at most one executeSave is between its writeFile and the
\* end of its rename or cleanup for a canvas id, so no two of them use the
\* temp file of that id at once.
C39_OneWriteInProgress ==
  \A w1 \in writes : \A w2 \in writes :
    w1.canvasId = w2.canvasId => w1 = w2

\* C33: there is one snapshot file per canvas id: a write for one id leaves
\* the file of every other id as it was, and the canvas cached under an id,
\* loaded from that id's file, is a canvas of that id.
C33_OneFilePerId ==
  /\ [](\A c \in CanvasIds : canvases[c] # 0 => heap[canvases[c]].id = c)
  /\ [][\A w \in writes :
          (w \notin writes' /\ w.stage = "rename") =>
             \A c \in CanvasIds :
               c # w.canvasId => disk'[getCanvasPath(c)] = disk[getCanvasPath(c)]]_vars

\* C34: element rows are never removed: an id that is in a canvas's element
\* list is still in the list, active or deleted, after any operation.
C34_RowsRetained ==
  [][\A o \in 1..Len(heap) :
       \A i \in 1..Len(heap[o].elements) :
         \E j \in 1..Len(heap'[o].elements) :
           heap'[o].elements[j].id = heap[o].elements[i].id]_vars

\* C31 as stated: every notification sent to a connection, of every type,
\* carries a timestamp and a source
Sent == UNION {{received[id][i][2] : i \in 1..Len(received[id])} : id \in ConnIds}
Limited(p) == calls[p].pc = "idle" /\ calls'[p].pc = "done"
              /\ calls'[p].result = "RATE_LIMIT_EXCEEDED"
C32_RejectedMessage ==
  [][\A p \in Procs :
       Limited(p) =>
         LET conn == calls'[p].conn
         IN /\ ( /\ ConnOf(connections, conn).ws = OPEN
                 /\ IndexOf(connections', conn) # 0 ) =>
                   /\ Len(received'[conn]) = 1
                   /\ received'[conn][1][2].type = "error"
                   /\ received'[conn][1][2].code = "RATE_LIMIT_EXCEEDED"
            /\ heap' = heap /\ canvases' = canvases
            /\ pendingSaves' = pendingSaves /\ writes' = writes
            /\ disk' = disk /\ tmp' = tmp
            /\ \A id \in ConnIds \ {conn} :
                 /\ received'[id] = <<>>
                 /\ (IndexOf(connections', id) = 0) = (IndexOf(connections, id) = 0)
                 /\ IndexOf(connections, id) # 0 =>
                      ConnOf(connections', id) = ConnOf(connections, id)]_vars

C32_Witness ==
  /\ last.op = "sync" /\ last.step = "limited"
  /\ last.message.hasElements
  /\ received[last.conn] # <<>>
  /\ heap[canvases[IdA]].elements # <<>>
  /\ Len(connections) > 1

\* the sockets of the hook that are open or connecting
Live == {s \in 1..Len(sockets) : sockets[s].readyState \in {CONNECTING, OPEN}}

\* the close event of socket s is delivered in this step
Closes(s) == /\ s \in 1..Len(sockets)
             /\ sockets[s].readyState # CLOSED
             /\ sockets'[s].readyState = CLOSED

\* C40: the events of a superseded socket never corrupt the current one: the
\* close event of a socket that wsRef no longer holds leaves wsRef on the
\* current socket and leaves isConnected alone while the current socket is
\* open, and at most one socket is open or connecting at any time.
C40_SupersededSocket ==
  /\ [](Cardinality(Live) <= 1)
  /\ [][\A s \in SocketIds :
          (Closes(s) /\ wsRef # 0 /\ wsRef # s) =>
             /\ wsRef' = wsRef
             /\ IsOpen(sockets, wsRef) => isConnected' = isConnected]_vars

\* C37: the hook reconnects automatically: the close event of a socket whose
\* close() the hook never called sets a reconnection timer as long as fewer
\* than reconnectAttempts attempts were made since the last successful open,
\* whatever calls came before; the close event of a socket closed through
\* disconnect() sets no timer, and disconnect() leaves no timer pending.
C37_Reconnects ==
  [][ /\ \A s \in SocketIds :
           Closes(s) =>
             IF sockets[s].closeCalled
             THEN timers' = timers
             ELSE attempts < reconnectAttempts => s \in timers'
      /\ hookOp'.op = "disconnect" => timers' = {} ]_vars

\* the sockets of the hook that are open
Opened == {s \in 1..Len(sockets) : sockets[s].readyState = OPEN}

\* send() is called in this step
Sends == sendCount' = sendCount + 1

\* a send() with no socket open puts its message last in the buffer, the
\* oldest entry leaving a full buffer, and sends nothing
BufferedWhenClosed ==
  (Sends /\ Opened = {}) =>
     /\ messageBuffer' = (IF Len(messageBuffer) = MaxBuffer
                          THEN Tail(messageBuffer) ELSE messageBuffer) \o <<sendCount'>>
     /\ sockets' = sockets

\* a send() with a socket open puts its message on an open socket at once
\* and leaves the buffer alone
SentWhenOpen ==
  (Sends /\ Opened # {}) =>
     /\ \E s \in Opened :
          sockets' = [sockets EXCEPT ![s].sent = Append(@, sendCount')]
     /\ messageBuffer' = messageBuffer

\* the open event of a socket sends the buffer on it, once and in order,
\* and empties the buffer
FlushedOnOpen ==
  \A s \in SocketIds :
     (s \in 1..Len(sockets) /\ s \notin Opened /\ s \in Opened') =>
        /\ sockets' = [sockets EXCEPT ![s] = [@ EXCEPT !.readyState = OPEN,
                                                       !.sent = @ \o messageBuffer]]
        /\ messageBuffer' = <<>>

\* C36: a message passed to send() while the socket is not open is buffered,
\* the buffer never holds more than the limit (the oldest is dropped first),
\* the next open sends every buffered message once, in order, and empties the
\* buffer; a message passed to send() while a socket is open is sent at once
\* and never buffered.
C36_Buffering ==
  /\ [](Len(messageBuffer) <= MaxBuffer)
  /\ [][BufferedWhenClosed /\ FlushedOnOpen /\ SentWhenOpen]_vars

\* client id handles a message in this step
Handles(id) == Len(handled'[id]) = Len(handled[id]) + 1
Handled(id) == Parse(handled'[id][Len(handled'[id])])

\* client id has pushed the element set a notification carries
Originator(id, message) ==
  \E p \in Procs : /\ calls[p].op = "sync"
                   /\ calls[p].conn = id
                   /\ calls[p].cleaned = message.elements

\* the scene holds every element of the set, as the set has it
InScene(elements, pushed) ==
  \A i \in 1..Len(pushed) :
     \E j \in 1..Len(elements) : elements[j] = cleanElementForExcalidraw(pushed[i])

\* C35: changes propagate to all connected clients: a client that handles the
\* notification of another client's push ends with the pushed elements in its
\* scene, and the client that pushed does not apply the echo of its own push.
C35_Propagates ==
  [][\A id \in ConnIds :
       (Handles(id) /\ Handled(id).type = "sync_response") =>
          IF Originator(id, Handled(id))
          THEN scene'[id] = scene[id]
          ELSE InScene(scene'[id], Handled(id).elements)]_vars

====
